---------------------------- MODULE Spec2Model ----------------------------
(***************************************************************************)
(* Variational inference engine of the correlated topic models            *)
(* (sidetopics/model/ctm.py, sidetopics/model/ctm_bohning_fast.py).         *)
(*                                                                         *)
(* Numbers.  The floating point matrices of the program are read in one   *)
(* of two interpretations, chosen by the variable arith.  In "ring" a      *)
(* number is an element of the finite ring Z_P: + - * are the ring         *)
(* operations, and the other numeric primitives (exp, ln, sqrt,            *)
(* reciprocal) are fixed total maps of the ring.  Every update is then a   *)
(* deterministic function of the values it reads, as in the program, and   *)
(* two arrays are equal in the model when they were computed the same way  *)
(* from the same inputs.  In "sign" a number is the set of the signs       *)
(* (neg, zero, pos, nan) its real value may have, and every primitive is   *)
(* the sound image of the real operation on such sets.                     *)
(* Matrices are D x K, K x T and D x T with K = 2 topics and T terms.      *)
(* The heap name vocabSum is a ghost: the sums of the rows of vocab as the *)
(* last write of vocab left them.                                          *)
(*                                                                         *)
(* Objects.  A numpy array is an object: a local name is bound either to   *)
(* the array the caller passed in (through ModelState / QueryState) or to  *)
(* an array allocated by the running function.  arg holds the contents of  *)
(* the caller's arrays, loc the contents of the function's own arrays and  *)
(* bind says which of the two each local name currently denotes.  An       *)
(* in-place numpy operation (out=, *=, +=, x[d,:] = ...) writes the object *)
(* the name denotes; an assignment x = expr rebinds the name.              *)
(***************************************************************************)
EXTENDS Integers, Sequences, FiniteSets, TLC

\* ------------------------------------------------------------------------
\* Bounds of the model
\* ------------------------------------------------------------------------
P == 7
D == 2
T == 2
MaxSeed == 1
MaxQueryIters == 2

\* ------------------------------------------------------------------------
\* Program constants
\* ------------------------------------------------------------------------
\* the smallest topic count newModelAtRandom accepts (assert K > 1)
K == 2
\* the placeholder perplexity before the first iteration of query (1E+30):
\* larger than every perplexity of the interpretation
HugePerp == P + 1
\* query tests convergence only after this iteration index (itr > 20)
MinQueryIters == 20
\* newModelAtRandom samples documents for a topic until their lengths sum to this
MinSampleLen == 1000

Val   == 0 .. (P - 1)
Doc   == 1 .. D
Topic == 0 .. (K - 1)
Term  == 0 .. (T - 1)

\* the interpretation of the numbers of a behaviour: "ring" or "sign"
VARIABLE arith
Signs == arith = "sign"

\* ------------------------------------------------------------------------
\* The sign interpretation: a number is the set of the signs it may have;
\* "nan" stands for every value that is not a finite real (inf, -inf, nan)
\* ------------------------------------------------------------------------
Sg  == {"neg", "zero", "pos", "nan"}
Top == {"neg", "zero", "pos"}
sgPlus(a, b) ==
    IF a = "nan" \/ b = "nan" THEN {"nan"}
    ELSE IF a = "zero" THEN {b}
    ELSE IF b = "zero" \/ a = b THEN {a}
    ELSE Top
sgNeg(a) == IF a = "pos" THEN "neg" ELSE IF a = "neg" THEN "pos" ELSE a
sgTimes(a, b) ==
    IF a = "nan" \/ b = "nan" THEN "nan"
    ELSE IF a = "zero" \/ b = "zero" THEN "zero"
    ELSE IF a = b THEN "pos" ELSE "neg"
sgRecip(a) == IF a = "zero" THEN "nan" ELSE a
sgExp(a)   == IF a = "nan" THEN "nan" ELSE "pos"
sgLn(a)    == IF a = "pos" THEN Top ELSE {"nan"}
sgSqrt(a)  == IF a = "neg" THEN "nan" ELSE a
sgSq(a)    == IF a = "neg" THEN "pos" ELSE a
sgOf(i)    == IF i > 0 THEN "pos" ELSE IF i = 0 THEN "zero" ELSE "neg"

\* ------------------------------------------------------------------------
\* Numeric primitives, in Z_P or on signs
\* ------------------------------------------------------------------------
Plus(a, b)  == IF Signs THEN UNION {sgPlus(x, y) : x \in a, y \in b} ELSE (a + b) % P
Times(a, b) == IF Signs THEN {sgTimes(x, y) : x \in a, y \in b} ELSE (a * b) % P
Minus(a, b) == IF Signs THEN UNION {sgPlus(x, sgNeg(y)) : x \in a, y \in b} ELSE (a - b) % P
Num(i)      == IF Signs THEN {sgOf(i)} ELSE i % P
Half        == IF Signs THEN {"pos"} ELSE (P + 1) \div 2
Quarter     == Times(Half, Half)

RECURSIVE Pow(_, _)
Pow(x, e) == IF e = 0 THEN 1 % P ELSE (x * Pow(x, e - 1)) % P

Recip(x)   == IF Signs THEN {sgRecip(a) : a \in x} ELSE Pow(x, P - 2)
Exp(x)     == IF Signs THEN {sgExp(a) : a \in x} ELSE (2 * x + 1) % P
Ln(x)      == IF Signs THEN UNION {sgLn(a) : a \in x} ELSE (3 * x + 2) % P
Sqrt(x)    == IF Signs THEN {sgSqrt(a) : a \in x} ELSE (x * x + x + 1) % P
Sigmoid(x) == Recip(Plus(Num(1), Exp(Minus(Num(0), x))))
\* x ** 2, which is never negative
Sq(x)      == IF Signs THEN {sgSq(a) : a \in x} ELSE (x * x) % P
\* a**2 - 2*a*b + b**2, which is the square of a - b
SqDiff(a, b) ==
    IF Signs THEN Sq(Minus(a, b))
    ELSE Plus(Minus(Sq(a), Times(Num(2), Times(a, b))), Sq(b))
\* 1/(1 + exp(-x)) - 0.5, which has the sign of x
SigmoidLessHalf(x) == IF Signs THEN x ELSE Minus(Sigmoid(x), Half)

\* the larger of two numbers; on signs, either of them
Max2(a, b) == IF Signs THEN a \cup b ELSE IF a >= b THEN a ELSE b
\* x == 0; on signs, x is certainly zero
IsZero(x)  == IF Signs THEN x = {"zero"} ELSE x = 0
\* x may be zero
MayBeZero(x) == IF Signs THEN "zero" \in x ELSE x = 0
\* on signs, a vector that is one of two vectors
Join(u, v) == [k \in DOMAIN u |-> u[k] \cup v[k]]

RECURSIVE SumRange(_, _, _)
SumRange(f, lo, hi) == IF hi < lo THEN Num(0) ELSE Plus(f[hi], SumRange(f, lo, hi - 1))
RECURSIVE MaxRange(_, _, _)
MaxRange(f, lo, hi) == IF hi <= lo THEN f[lo] ELSE Max2(f[hi], MaxRange(f, lo, hi - 1))

SumDocs(f)   == SumRange(f, 1, D)
SumTopics(r) == SumRange(r, 0, K - 1)
SumTerms(r)  == SumRange(r, 0, T - 1)
RowMax(r)    == MaxRange(r, 0, K - 1)

ZeroDK == [d \in Doc |-> [k \in Topic |-> Num(0)]]
ZeroD  == [d \in Doc |-> Num(0)]
ZeroK  == [k \in Topic |-> Num(0)]
ZeroKK == [i \in Topic |-> [j \in Topic |-> Num(0)]]
Eye    == [i \in Topic |-> [j \in Topic |-> IF i = j THEN Num(1) ELSE Num(0)]]

\* ------------------------------------------------------------------------
\* Numeric helpers of the package (sidetopics.util, sidetopics.model.evals)
\* ------------------------------------------------------------------------
\* every row of a matrix divided by its sum (columns 0..hi)
RowsOverSums(m, hi) == [r \in DOMAIN m |->
    [c \in DOMAIN m[r] |-> Times(m[r][c], Recip(SumRange(m[r], 0, hi)))]]
\* the sums of the rows that RowsOverSums leaves: in Z_P their sums; on signs
\* "one" when the row was divided by a finite sum that is not zero
SumsOfRowsOverSums(m, hi) == [r \in DOMAIN m |->
    IF Signs
    THEN IF SumRange(m[r], 0, hi) \subseteq {"neg", "pos"} THEN {"one"} ELSE {"nan"}
    ELSE SumRange(RowsOverSums(m, hi)[r], 0, hi)]

\* array_utils.normalizerows_ip: every row divided by its sum (columns 0..hi)
normalizerows_ip(m, hi) == RowsOverSums(m, hi)

\* sigmoid_utils.rowwise_softmax: exp of the row shifted by its maximum,
\* divided by the row sum
rowwise_softmax(m) ==
    LET e == [d \in Doc |-> [k \in Topic |-> Exp(Minus(m[d][k], RowMax(m[d])))]]
    IN  normalizerows_ip(e, K - 1)

\* the dot product expMeans[d,:] . vocab[:,t]
DotTopics(e, vocab, d, t) == SumTopics([k \in Topic |-> Times(e[d][k], vocab[k][t])])

\* sparse_elementwise.sparseScalarQuotientOfDot: W / (expMeans . vocab) at the
\* non-zero entries of W, zero elsewhere
sparseScalarQuotientOfDot(W, e, vocab) == [d \in Doc |-> [t \in Term |->
    IF W[d][t] = 0 THEN Num(0)
    ELSE Times(Num(W[d][t]), Recip(DotTopics(e, vocab, d, t)))]]

\* sparse_elementwise.sparseScalarProductOfSafeLnDot: W * ln(expMeans . vocab)
\* at the non-zero entries of W
sparseScalarProductOfSafeLnDot(W, e, vocab) == [d \in Doc |-> [t \in Term |->
    IF W[d][t] = 0 THEN Num(0)
    ELSE Times(Num(W[d][t]), Ln(DotTopics(e, vocab, d, t)))]]

\* the sum of all entries of a D x T matrix
SumAllDT(m) == SumDocs([d \in Doc |-> SumTerms(m[d])])
\* the sum of all entries of a D x K matrix
SumAllDK(m) == SumDocs([d \in Doc |-> SumTopics(m[d])])

\* evals.perplexity_from_like: exp(-likelihood / word count)
perplexity_from_like(like, count) == Exp(Minus(Num(0), Times(like, Recip(count))))

\* scipy.linalg.det and scipy.linalg.inv of a K x K matrix (K = 2)
det(m) == Minus(Times(m[0][0], m[1][1]), Times(m[0][1], m[1][0]))
Singular(m) == IsZero(det(m))
inv(m) ==
    LET r == Recip(det(m))
    IN  [i \in Topic |-> [j \in Topic |->
            IF i = j THEN Times(r, m[1 - i][1 - i])
            ELSE Times(r, Minus(Num(0), m[i][j]))]]
\* matrix-vector and vector-matrix products
MatVec(m, v) == [i \in Topic |-> SumTopics([j \in Topic |-> Times(m[i][j], v[j])])]
VecMat(v, m) == [j \in Topic |-> SumTopics([i \in Topic |-> Times(v[i], m[i][j])])]
Diagonal(m)  == [k \in Topic |-> m[k][k]]
Diag(v)      == [i \in Topic |-> [j \in Topic |-> IF i = j THEN v[i] ELSE Num(0)]]

\* ------------------------------------------------------------------------
\* ctm.py: the Bouchard bound auxiliaries
\* ------------------------------------------------------------------------
\* _deriveXi: sqrt(means^2 - 2 means s + s^2 + varcs^2)
deriveXi(means, varcs, s) == [d \in Doc |-> [k \in Topic |->
    Sqrt(Plus(SqDiff(means[d][k], s[d]), Sq(varcs[d][k])))]]

\* jakkolaOfDerivedXi (d = None), the expression with the opposite sign:
\* 0.5/xi * (0.5 - 1/(1 + exp(-xi)))
jakkolaOfDerivedXi(means, varcs, s) ==
    LET mat == deriveXi(means, varcs, s)
    IN  [d \in Doc |-> [k \in Topic |->
           Times(Times(Half, Recip(mat[d][k])), Minus(Num(0), SigmoidLessHalf(mat[d][k])))]]

\* negJakkolaOfDerivedXi (d = None): 0.5/xi * (1/(1 + exp(-xi)) - 0.5)
negJakkolaOfDerivedXi(means, varcs, s) ==
    LET mat == deriveXi(means, varcs, s)
    IN  [d \in Doc |-> [k \in Topic |->
           Times(Times(Half, Recip(mat[d][k])), SigmoidLessHalf(mat[d][k]))]]

\* ctm.log_likelihood
log_likelihood(W, means, vocab) ==
    SumAllDT(sparseScalarProductOfSafeLnDot(W, rowwise_softmax(means), vocab))

\* the value np.exp(means - means.max(axis=1)[:,np.newaxis]) writes to its out=
ExpShifted(means) == [d \in Doc |-> [k \in Topic |-> Exp(Minus(means[d][k], RowMax(means[d])))]]

\* scaledSumOfLnOnePlusExp(docLens, xi): sum_d docLens[d] * sum_k ln(1 + exp(xi[d,k]))
scaledSumOfLnOnePlusExp(docLens, xi) == SumDocs([d \in Doc |->
    Times(docLens[d], SumTopics([k \in Topic |-> Ln(Plus(Num(1), Exp(xi[d][k])))]))])

LN_OF_2_PI   == Ln(Num(6))
LN_OF_2_PI_E == Ln(Num(17))

\* ctm.var_bound: the value it returns
var_bound_value(W, means, varcs, lxi, s, docLens, topicMean, sigT, vocab) ==
    LET xi    == deriveXi(means, varcs, s)
        isigT == inv(sigT)
        diff  == [d \in Doc |-> [k \in Topic |-> Minus(means[d][k], topicMean[k])]]
        b1 == Minus(Num(0), Times(Times(Num(D * K), Half), LN_OF_2_PI))
        b2 == Minus(b1, Times(Times(Num(D), Half), det(sigT)))
        b3 == Minus(b2, Times(Half, SumAllDK([d \in Doc |-> [k \in Topic |->
                  Times(VecMat(diff[d], isigT)[k], diff[d][k])]])))
        b4 == Minus(b3, Times(Half, SumAllDK([d \in Doc |-> [k \in Topic |->
                  Times(varcs[d][k], isigT[k][k])]])))
        b5 == Plus(Plus(b4, Times(Times(Half, Num(D * K)), LN_OF_2_PI_E)),
                   Times(Half, SumAllDK([d \in Doc |-> [k \in Topic |-> Ln(varcs[d][k])]])))
        b6 == Minus(b5, SumAllDK([d \in Doc |-> [k \in Topic |->
                  Times(Times(Plus(Sq(means[d][k]), varcs[d][k]),
                              docLens[d]), lxi[d][k])]]))
        b7 == Plus(b6, SumAllDK([d \in Doc |-> [k \in Topic |->
                  Times(Times(Times(Times(means[d][k], Num(2)), docLens[d]), s[d]), lxi[d][k])]]))
        b8 == Plus(b7, SumAllDK([d \in Doc |-> [k \in Topic |->
                  Times(Times(means[d][k], Minus(Num(0), Half)), docLens[d])]]))
        b9 == Plus(b8, SumAllDT(sparseScalarProductOfSafeLnDot(W, ExpShifted(means), vocab)))
        b10 == Minus(b9, SumAllDK([d \in Doc |-> [k \in Topic |->
                  Times(Times(docLens[d], lxi[d][k]),
                        Minus(Sq(s[d]), Sq(xi[d][k])))]]))
        b11 == Plus(b10, SumAllDK([d \in Doc |-> [k \in Topic |->
                  Times(Times(Half, docLens[d]), Plus(s[d], xi[d][k]))]]))
        b12 == Minus(b11, scaledSumOfLnOnePlusExp(docLens, xi))
    IN  Minus(b12, SumDocs([d \in Doc |-> Times(s[d], docLens[d])]))

\* ------------------------------------------------------------------------
\* State
\* ------------------------------------------------------------------------
VARIABLES
    fn,            \* the function that is executing
    pc,            \* its position
    exc,           \* the exception that ended it, or "none"
    script,        \* the calls the caller still has to make
    plan,          \* TrainPlan of the running call
    W,             \* dataset.words
    fresh,         \* the caller's freshly initialised ModelState and QueryState values
    arg,           \* contents of the arrays passed in by the caller
    loc,           \* contents of the arrays allocated by the running function
    bind,          \* which array each local name denotes: "arg" or "loc"
    itr,           \* loop index
    lastPerp,      \* query: perplexity of the previous iteration
    boundIters, boundValues, likelyValues, bvIdx,   \* train: the trace arrays
    last,          \* module-level last bound of the debug hook
    stderr,        \* warnings written so far
    stdout,        \* lines printed so far
    linalgIsValueError,  \* whether numpy's LinAlgError derives from ValueError
    entry,         \* contents of the caller's arrays when the running call started
    results        \* outcome of every finished call, in call order

heapVars  == <<arg, loc, bind>>
traceVars == <<boundIters, boundValues, likelyValues, bvIdx>>
vars == <<arith, linalgIsValueError, fn, pc, exc, script, plan, W, fresh, arg, loc, bind, itr, lastPerp,
          boundIters, boundValues, likelyValues, bvIdx, last, stderr, stdout, entry, results>>

ModelFields == {"topicMean", "sigT", "vocab"}
QueryFields == {"means", "expMeans", "varcs", "lxi", "s", "docLens"}
Temps       == {"isigT", "S"}
\* ghost of the vocab array: the sums of its rows as its last write left them
Ghosts      == {"vocabSum"}
Names       == ModelFields \cup QueryFields \cup Temps \cup Ghosts

\* the heap as one value, and the three ways a statement touches a name
Heap == [arg |-> arg, loc |-> loc, bind |-> bind]
Get(h, x)       == IF h.bind[x] = "arg" THEN h.arg[x] ELSE h.loc[x]
Store(h, x, v)  == IF h.bind[x] = "arg" THEN [h EXCEPT !.arg[x] = v]
                                        ELSE [h EXCEPT !.loc[x] = v]
Rebind(h, x, v) == [h EXCEPT !.loc[x] = v, !.bind[x] = "loc"]
SetHeap(h)      == /\ arg'  = h.arg
                   /\ loc'  = h.loc
                   /\ bind' = h.bind

\* S = expMeans * R.dot(vocab.T)
SMatrix(e, R, vocab) == [d \in Doc |-> [k \in Topic |->
    Times(e[d][k], SumTerms([t \in Term |-> Times(R[d][t], vocab[k][t])]))]]

\* the debug hook's bound: var_bound over QueryState(means, means.copy(), ...),
\* so its scratch buffer is a private copy
DebugBound(h) == var_bound_value(W, Get(h, "means"), Get(h, "varcs"), Get(h, "lxi"),
                     Get(h, "s"), Get(h, "docLens"), Get(h, "topicMean"),
                     Get(h, "sigT"), Get(h, "vocab"))

\* the entries of the array called x: vectors and matrices
Vectors == {"topicMean", "s", "docLens", "vocabSum"}
Entries(x, v) == IF x \in Vectors THEN {v[i] : i \in DOMAIN v}
                 ELSE UNION {{v[i][j] : j \in DOMAIN v[i]} : i \in DOMAIN v}
\* np.isnan(v).any() or np.isinf(v).any(): certainly, when an entry can be
\* nothing but a non-finite value; possibly, when an entry may be one
NonFinite(x, v)      == Signs /\ \E e \in Entries(x, v) : e = {"nan"}
MayBeNonFinite(x, v) == Signs /\ \E e \in Entries(x, v) : "nan" \in e

\* "WARNING: " + var_name + " contains NaNs" (or INFs), ctm.py lines 574-577
WarningOf(x) ==
    CASE x = "topicMean" -> "WARNING: topicMean contains NaNs or INFs"
      [] x = "sigT"      -> "WARNING: sigT contains NaNs or INFs"
      [] x = "vocab"     -> "WARNING: vocab contains NaNs or INFs"
      [] x = "varcs"     -> "WARNING: varcs contains NaNs or INFs"
      [] x = "means"     -> "WARNING: means contains NaNs or INFs"
      [] x = "lxi"       -> "WARNING: lxi contains NaNs or INFs"
      [] x = "s"         -> "WARNING: s contains NaNs or INFs"

\* lines 574-577 of _debug_with_bound: the scan of the updated variable
ScanFor(x, h) ==
    \E printed \in BOOLEAN :
        /\ NonFinite(x, Get(h, x)) => printed
        /\ ~MayBeNonFinite(x, Get(h, x)) => ~printed
        /\ stderr' = IF printed THEN stderr \cup {WarningOf(x)} ELSE stderr

\* scipy.linalg.inv and scipy.linalg.det validate their argument
\* (check_finite=True): a sigT with a non-finite entry raises ValueError
CheckFiniteRaises(h) == NonFinite("sigT", Get(h, "sigT"))

\* _debug_with_bound / _debug_with_nothing after the update of x: the scan,
\* then last = bound; _debug_with_nothing does neither
DebugFn(x, h) == IF plan.debug THEN last' = DebugBound(h) /\ ScanFor(x, h)
                 ELSE UNCHANGED <<last, stderr>>

\* ctm.var_bound line 446 and ctm_bohning_fast.var_bound line 444: the shifted
\* exponential is written into the expMeans array of the QueryState (out=)
VarBoundEffect(h) == Store(h, "expMeans", ExpShifted(Get(h, "means")))

\* ------------------------------------------------------------------------
\* ctm.query
\* ------------------------------------------------------------------------
\* CtmQueryInit with the in-place topic update of train (vocab *= ...) left in
CtmQueryInit_UpdatesVocab(h) ==
    LET h1 == Rebind(h, "isigT", inv(Get(h, "sigT")))
        h2 == Store(h1, "expMeans", ExpShifted(Get(h1, "means")))
        e  == Get(h2, "expMeans")
        v  == Get(h2, "vocab")
        R  == sparseScalarQuotientOfDot(W, e, v)
        h3 == Store(h2, "vocab", [k \in Topic |-> [t \in Term |->
                  Times(v[k][t], SumDocs([d \in Doc |-> Times(R[d][t], e[d][k])]))]])
    IN  Rebind(h3, "S", SMatrix(e, R, Get(h3, "vocab")))

\* lines 338-341: isigT, expMeans (written through out=), S
CtmQueryInit(h) ==
    LET h1 == Rebind(h, "isigT", inv(Get(h, "sigT")))
        h2 == Store(h1, "expMeans", ExpShifted(Get(h1, "means")))
        R  == sparseScalarQuotientOfDot(W, Get(h2, "expMeans"), Get(h2, "vocab"))
    IN  Rebind(h2, "S", SMatrix(Get(h2, "expMeans"), R, Get(h2, "vocab")))

\* lines 350-351: the right-hand side of the means update
CtmRhsMat(h) ==
    LET s == Get(h, "s")  lxi == Get(h, "lxi")  n == Get(h, "docLens")
        it == MatVec(Get(h, "isigT"), Get(h, "topicMean"))
    IN  [d \in Doc |-> [k \in Topic |->
           Plus(Plus(Times(Minus(Times(s[d], lxi[d][k]), Half), n[d]), Get(h, "S")[d][k]),
                it[k])]]

\* line 354: the matrix inverted for document d
CtmDocSystem(h, d) ==
    LET lxi == Get(h, "lxi")  n == Get(h, "docLens")  isigT == Get(h, "isigT")
    IN  [i \in Topic |-> [j \in Topic |->
           IF i = j THEN Plus(isigT[i][j], Times(n[d], lxi[d][i])) ELSE isigT[i][j]]]

\* CtmQueryMeans that shifts topicMean in place (topicMean += 1) before it is used
CtmQueryMeans_ShiftsTopicMean(h) ==
    LET tm     == Get(h, "topicMean")
        h0     == Store(h, "topicMean", [k \in Topic |-> Plus(tm[k], Num(1))])
        rhsMat == CtmRhsMat(h0)
        old    == Get(h0, "means")
    IN  Store(h0, "means", [d \in Doc |->
            IF Singular(CtmDocSystem(h0, d)) THEN old[d]
            ELSE IF MayBeZero(det(CtmDocSystem(h0, d)))
            THEN Join(old[d], MatVec(inv(CtmDocSystem(h0, d)), rhsMat[d]))
            ELSE MatVec(inv(CtmDocSystem(h0, d)), rhsMat[d])])

\* lines 352-357: rows written in place; a failed inversion is printed and
\* the row keeps its value
CtmQueryMeans(h) ==
    LET rhsMat == CtmRhsMat(h)
        old    == Get(h, "means")
    IN  Store(h, "means", [d \in Doc |->
            IF Singular(CtmDocSystem(h, d)) THEN old[d]
            ELSE IF MayBeZero(det(CtmDocSystem(h, d)))
            THEN Join(old[d], MatVec(inv(CtmDocSystem(h, d)), rhsMat[d]))
            ELSE MatVec(inv(CtmDocSystem(h, d)), rhsMat[d])])

\* line 361
CtmQueryVarcs(h) ==
    LET lxi == Get(h, "lxi")  n == Get(h, "docLens")  isigT == Get(h, "isigT")
    IN  Rebind(h, "varcs", [d \in Doc |-> [k \in Topic |->
            Recip(Plus(Times(n[d], lxi[d][k]), isigT[k][k]))]])

\* line 365
CtmLxi(h) ==
    LET nj == negJakkolaOfDerivedXi(Get(h, "means"), Get(h, "varcs"), Get(h, "s"))
    IN  Rebind(h, "lxi", [d \in Doc |-> [k \in Topic |-> Times(Num(2), nj[d][k])]])

\* line 371
CtmQueryS(h) ==
    LET lxi == Get(h, "lxi")  means == Get(h, "means")
    IN  Rebind(h, "s", [d \in Doc |->
            Times(Minus(Plus(SumTopics([k \in Topic |-> Times(lxi[d][k], means[d][k])]),
                             Times(Quarter, Num(K))), Half),
                  Recip(SumTopics(lxi[d])))])

\* lines 374-375
QueryPerp(h) == perplexity_from_like(
                    log_likelihood(W, Get(h, "means"), Get(h, "vocab")),
                    SumAllDT([d \in Doc |-> [t \in Term |-> Num(W[d][t])]]))

\* what a call leaves behind: the tuples it returned (which array each field
\* denotes, and its contents), the function's local names at the return, and
\* the caller's arrays before and after the call
Deref(h, ref, x) == IF ref = "arg" THEN h.arg[x] ELSE h.loc[x]
Returned(h, early, sameModelTuple, mref, sameQueryTuple, qref, tr) ==
    [fn |-> fn, outcome |-> "returned", plan |-> plan, early |-> early,
     executed |-> IF plan.iterations = 0 THEN 0 ELSE itr + 1,
     sameModelTuple |-> sameModelTuple, mref |-> mref,
     model |-> [x \in ModelFields |-> Deref(h, mref[x], x)],
     sameQueryTuple |-> sameQueryTuple, qref |-> qref,
     query |-> [x \in QueryFields |-> Deref(h, qref[x], x)],
     locals |-> [x \in Names |-> Get(h, x)],
     trace |-> tr, before |-> entry, after |-> h.arg]
Raised(h, e) ==
    [fn |-> fn, outcome |-> e, plan |-> plan, before |-> entry, after |-> h.arg]

Finish(r) == /\ results' = Append(results, r)
             /\ pc' = IF r.outcome = "returned" THEN "done" ELSE "raised"

CtmQuery_Init ==
    /\ fn = "ctm.query" /\ pc = "init"
    /\ SetHeap(CtmQueryInit(Heap))
    /\ lastPerp' = HugePerp
    /\ itr' = 0
    /\ pc' = IF plan.iterations > 0 THEN "means" ELSE "return"
    /\ UNCHANGED <<fn, exc, script, plan, W, arith, linalgIsValueError, fresh, traceVars, last, stderr, stdout, entry, results>>

\* lines 355-357: except ValueError as e: print(str(e)); print("Ah")
QueryFailing(h) == {d \in Doc : Singular(CtmDocSystem(h, d))}
QueryMayFail(h) == {d \in Doc : MayBeZero(det(CtmDocSystem(h, d)))}
PrintFailures(h) ==
    \E printed \in BOOLEAN :
        /\ QueryFailing(h) # {} => printed
        /\ QueryMayFail(h) = {} => ~printed
        /\ stdout' = IF printed THEN stdout \cup {"Ah"} ELSE stdout

\* the rows written before the inversion for document d0 raises
CtmQueryMeansUpTo(h, d0) ==
    LET new == Get(CtmQueryMeans(h), "means")
        old == Get(h, "means")
    IN  Store(h, "means", [d \in Doc |-> IF d < d0 THEN new[d] ELSE old[d]])

\* lines 350-358.  scipy.linalg.inv raises numpy's LinAlgError on a singular
\* matrix: that class derives from ValueError in some numpy releases and
\* from Exception in others, so the handler of line 355 either catches it
\* or lets it leave the function at the first failing document
CtmQuery_Means ==
    /\ fn = "ctm.query" /\ pc = "means"
    /\ \/ /\ ~linalgIsValueError
          /\ \E d0 \in QueryMayFail(Heap) :
                /\ \A d \in QueryFailing(Heap) : d0 <= d
                /\ SetHeap(CtmQueryMeansUpTo(Heap, d0))
                /\ exc' = "LinAlgError"
                /\ Finish(Raised(CtmQueryMeansUpTo(Heap, d0), "LinAlgError"))
                /\ UNCHANGED <<last, stderr, stdout>>
       \/ /\ linalgIsValueError \/ QueryFailing(Heap) = {}
          /\ SetHeap(CtmQueryMeans(Heap))
          /\ PrintFailures(Heap)
          /\ DebugFn("means", CtmQueryMeans(Heap))
          /\ pc' = "varcs"
          /\ UNCHANGED <<exc, results>>
    /\ UNCHANGED <<fn, script, plan, W, arith, linalgIsValueError, fresh, itr, lastPerp, traceVars, entry>>

CtmQuery_Varcs ==
    /\ fn = "ctm.query" /\ pc = "varcs"
    /\ SetHeap(CtmQueryVarcs(Heap))
    /\ DebugFn("varcs", CtmQueryVarcs(Heap))
    /\ pc' = "lxi"
    /\ UNCHANGED <<fn, exc, script, plan, W, arith, linalgIsValueError, fresh, itr, lastPerp, traceVars, stdout, entry, results>>

CtmQuery_Lxi ==
    /\ fn = "ctm.query" /\ pc = "lxi"
    /\ SetHeap(CtmLxi(Heap))
    /\ DebugFn("lxi", CtmLxi(Heap))
    /\ pc' = "s"
    /\ UNCHANGED <<fn, exc, script, plan, W, arith, linalgIsValueError, fresh, itr, lastPerp, traceVars, stdout, entry, results>>

CtmQuery_S ==
    /\ fn = "ctm.query" /\ pc = "s"
    /\ SetHeap(CtmQueryS(Heap))
    /\ DebugFn("s", CtmQueryS(Heap))
    /\ pc' = "perp"
    /\ UNCHANGED <<fn, exc, script, plan, W, arith, linalgIsValueError, fresh, itr, lastPerp, traceVars, stdout, entry, results>>

\* line 376: if itr > 20 and lastPerp - perp < 1, as a rule on the iteration
\* index and the perplexities of the previous and of the current check
QueryStopRule(i, prev, cur) == i > MinQueryIters /\ prev - cur < 1

\* lines 374-378: the convergence test that ends the loop, and the loop head
QueryConverged(h) == QueryStopRule(itr, lastPerp, QueryPerp(h))

CtmQuery_Perp ==
    /\ fn = "ctm.query" /\ pc = "perp"
    /\ IF QueryConverged(Heap)
       THEN /\ pc' = "return"
            /\ UNCHANGED <<itr, lastPerp>>
       ELSE /\ lastPerp' = QueryPerp(Heap)
            /\ IF itr + 1 < plan.iterations
               THEN itr' = itr + 1 /\ pc' = "means"
               ELSE itr' = itr /\ pc' = "return"
    /\ UNCHANGED <<fn, exc, script, plan, W, arith, linalgIsValueError, fresh, heapVars, traceVars, last, stderr, stdout, entry, results>>

\* line 380: return modelState, QueryState (means, expMeans, varcs, lxi, s, n)
CtmQueryResult(h) ==
    Returned(h, itr + 1 < plan.iterations, TRUE, [x \in ModelFields |-> "arg"],
                FALSE, [x \in QueryFields |-> h.bind[x]], <<>>)

CtmQuery_Return ==
    /\ fn = "ctm.query" /\ pc = "return"
    /\ Finish(CtmQueryResult(Heap))
    /\ UNCHANGED <<fn, exc, script, plan, W, arith, linalgIsValueError, fresh, heapVars, itr, lastPerp, traceVars, last, stderr, stdout, entry>>

\* ------------------------------------------------------------------------
\* ctm.train
\* ------------------------------------------------------------------------
USE_NIW_PRIOR == TRUE
\* line 199: kappa = K + 2;  line 198: priorSigt_diag filled with 0.1
kappa          == K + 2
priorSigt_diag == Recip(Num(10))
\* VocabPrior = 1.1
vocabPrior     == Plus(Num(1), Recip(Num(10)))

\* lines 185-188: np.zeros(shape=(iterations // logFrequency,))
TraceLen(pl) == pl.iterations \div pl.logFrequency
Zeros(n)     == [i \in 1 .. n |-> 0]

\* CtmTrainInit with the copy made the other way round: means = expMeans.copy()
CtmTrainInit_CopiesExpMeans(h) ==
    LET h1 == Rebind(h, "isigT", inv(Get(h, "sigT")))
        h2 == Store(h1, "s", ZeroD)
    IN  Rebind(h2, "means", Get(h2, "expMeans"))

\* CtmTrainInit without s.fill(0)
CtmTrainInit_KeepsS(h) ==
    LET h1 == Rebind(h, "isigT", inv(Get(h, "sigT")))
    IN  Rebind(h1, "expMeans", Get(h1, "means"))

\* lines 193-201: isigT, s.fill(0) on the caller's array, expMeans = means.copy()
CtmTrainInit(h) ==
    LET h1 == Rebind(h, "isigT", inv(Get(h, "sigT")))
        h2 == Store(h1, "s", ZeroD)
    IN  Rebind(h2, "expMeans", Get(h2, "means"))

\* lines 211-213
CtmTopicMean(h) ==
    LET means == Get(h, "means")
    IN  Rebind(h, "topicMean", [k \in Topic |->
            IF USE_NIW_PRIOR
            THEN Times(SumDocs([d \in Doc |-> means[d][k]]), Recip(Num(D + kappa)))
            ELSE Times(SumDocs([d \in Doc |-> means[d][k]]), Recip(Num(D)))])

\* sklearn.covariance.oas(means, assume_centered=False): the empirical
\* covariance shrunk towards a multiple of the identity (the shrinkage
\* coefficient is interpreted as 1/2)
oas(means) ==
    LET mu  == [k \in Topic |-> Times(SumDocs([d \in Doc |-> means[d][k]]), Recip(Num(D)))]
        dev == [d \in Doc |-> [k \in Topic |-> Minus(means[d][k], mu[k])]]
        emp == [i \in Topic |-> [j \in Topic |->
                  Times(SumDocs([d \in Doc |-> IF i = j THEN Sq(dev[d][i])
                                               ELSE Times(dev[d][i], dev[d][j])]),
                        Recip(Num(D)))]]
        tr  == Times(SumTopics(Diagonal(emp)), Recip(Num(K)))
    IN  [i \in Topic |-> [j \in Topic |->
           Plus(Times(Half, emp[i][j]), IF i = j THEN Times(Half, tr) ELSE Num(0))]]

\* lines 219-227: the covariance before the precision is built
CtmSigTFull(h) ==
    LET means == Get(h, "means")  varcs == Get(h, "varcs")  tm == Get(h, "topicMean")
        c  == oas(means)
        vm == [k \in Topic |-> Times(SumDocs([d \in Doc |-> varcs[d][k]]), Recip(Num(D)))]
        w  == Times(Num(kappa * D), Recip(Num(kappa + D)))
    IN  [i \in Topic |-> [j \in Topic |->
           Plus(Plus(c[i][j], IF i = j THEN vm[i] ELSE Num(0)),
                IF USE_NIW_PRIOR
                THEN Plus(IF i = j THEN priorSigt_diag ELSE Num(0),
                          Times(w, IF i = j THEN Sq(tm[i]) ELSE Times(tm[i], tm[j])))
                ELSE Num(0))]]

\* lines 231-236: if True or diagonalPriorCov
CtmSigT(h) ==
    LET full == CtmSigTFull(h)
    IN  IF TRUE \/ plan.fastButInaccurate
        THEN Rebind(Rebind(h, "sigT", Diag(Diagonal(full))),
                    "isigT", Diag([k \in Topic |-> Recip(full[k][k])]))
        ELSE Rebind(Rebind(h, "sigT", full), "isigT", inv(full))

\* VocabCounts without the prior pseudo-count
VocabCounts_NoPrior(vocab, R, e) ==
    [k \in Topic |-> [t \in Term |->
        Times(vocab[k][t], SumDocs([d \in Doc |-> Times(R[d][t], e[d][k])]))]]

\* lines 247-248: vocab *= (R.T.dot(expMeans)).T; vocab += vocabPrior
VocabCounts(vocab, R, e) ==
    [k \in Topic |-> [t \in Term |->
        Plus(Times(vocab[k][t], SumDocs([d \in Doc |-> Times(R[d][t], e[d][k])])),
             vocabPrior)]]

\* lines 247-249: vocab *= ...; vocab += vocabPrior; normalizerows_ip(vocab),
\* all three on the array the name vocab denotes
VocabUpdate(vocab, R, e) == normalizerows_ip(VocabCounts(vocab, R, e), T - 1)

\* lines 242-252
CtmVocab(h) ==
    LET h1 == Store(h, "expMeans", ExpShifted(Get(h, "means")))
        e  == Get(h1, "expMeans")
        R  == sparseScalarQuotientOfDot(W, e, Get(h1, "vocab"))
        h2 == Store(Store(h1, "vocabSum",
                        SumsOfRowsOverSums(VocabCounts(Get(h1, "vocab"), R, e), T - 1)),
                    "vocab", VocabUpdate(Get(h1, "vocab"), R, e))
        R2 == sparseScalarQuotientOfDot(W, e, Get(h2, "vocab"))
    IN  Rebind(h2, "S", SMatrix(e, R2, Get(h2, "vocab")))

\* line 262
CtmVarcs(h) ==
    LET lxi == Get(h, "lxi")  n == Get(h, "docLens")  isigT == Get(h, "isigT")
    IN  Rebind(h, "varcs", [d \in Doc |-> [k \in Topic |->
            Recip(Plus(Times(n[d], lxi[d][k]), isigT[k][k]))]])

\* lines 266-272: means = varcs * rhsMat, then means -= means[:,0]
CtmMeans(h) ==
    LET rhsMat == CtmRhsMat(h)
        varcs  == Get(h, "varcs")
        m      == [d \in Doc |-> [k \in Topic |-> Times(varcs[d][k], rhsMat[d][k])]]
    IN  Rebind(h, "means", [d \in Doc |-> [k \in Topic |-> Minus(m[d][k], m[d][0])]])

\* TrainNext with the variance update moved before the vocabulary update
TrainNext_VarcsBeforeVocab(p) ==
    CASE p = "topicMean" -> "sigT"
      [] p = "sigT"      -> "varcs"
      [] p = "varcs"     -> "vocab"
      [] p = "vocab"     -> "means"
      [] p = "means"     -> "lxi"
      [] p = "lxi"       -> "s"
      [] p = "s"         -> "log"

\* the statements of one iteration, in program order (lines 204-305)
TrainNext(p) ==
    CASE p = "topicMean" -> "sigT"
      [] p = "sigT"      -> "vocab"
      [] p = "vocab"     -> "varcs"
      [] p = "varcs"     -> "means"
      [] p = "means"     -> "lxi"
      [] p = "lxi"       -> "s"
      [] p = "s"         -> "log"

\* the update made at each position
TrainUpdate(p, h) ==
    CASE p = "topicMean" -> CtmTopicMean(h)
      [] p = "sigT"      -> CtmSigT(h)
      [] p = "vocab"     -> CtmVocab(h)
      [] p = "varcs"     -> CtmVarcs(h)
      [] p = "means"     -> CtmMeans(h)
      [] p = "lxi"       -> CtmLxi(h)
      [] p = "s"         -> h

TrainSteps == {"topicMean", "sigT", "vocab", "varcs", "means", "lxi", "s"}

\* util.misc.clamp: the three trace arrays cut to the given length
clamp(a, b, c, n) == <<SubSeq(a, 1, n), SubSeq(b, 1, n), SubSeq(c, 1, n)>>

\* the tuples train returns: ModelState(K, topicMean, sigT, vocab, ...) and
\* QueryState(means, expMeans, varcs, lxi, s, n) over the arrays the local
\* names denote
CtmTrainResult(h, early, tr) ==
    Returned(h, early, FALSE, [x \in ModelFields |-> h.bind[x]],
                       FALSE, [x \in QueryFields |-> h.bind[x]], tr)

CtmTrain_Init ==
    /\ fn = "ctm.train" /\ pc = "init"
    /\ IF plan.logFrequency = 0
       THEN /\ exc' = "ZeroDivisionError"
            /\ Finish(Raised(Heap, "ZeroDivisionError"))
            /\ UNCHANGED <<heapVars, traceVars>>
       ELSE /\ boundIters'   = Zeros(TraceLen(plan))
            /\ boundValues'  = Zeros(TraceLen(plan))
            /\ likelyValues' = Zeros(TraceLen(plan))
            /\ bvIdx' = 0
            /\ SetHeap(CtmTrainInit(Heap))
            /\ pc' = IF plan.iterations > 0 THEN "topicMean" ELSE "return"
            /\ UNCHANGED <<exc, results>>
    /\ UNCHANGED <<fn, script, plan, W, arith, linalgIsValueError, fresh, itr, lastPerp, last, stderr, stdout, entry>>

\* X.shape[1]
shape1(X, first) == Cardinality(DOMAIN X[first])

\* the assertion of newQueryState with the comparison loosened to <=
SameTermCount_AtMost(Wd, vocab) == shape1(Wd, 1) <= shape1(vocab, 0)

\* ctm.newQueryState line 133, ctm_bohning_fast.newQueryState line 154:
\* assert T == vocab.shape[1]
SameTermCount(Wd, vocab) == shape1(Wd, 1) = shape1(vocab, 0)

\* train compares no shapes: W.shape is read for D alone (line 176)
TermsAgree == SameTermCount(W, Get(Heap, "vocab"))

\* line 242, the statement of the vocabulary update that precedes the first
\* product of the word counts with vocab
CtmExpMeans(h) == Store(h, "expMeans", ExpShifted(Get(h, "means")))

\* one update of the iteration, followed by the debug hook.  When the term
\* counts of W and vocab differ, vocab *= (R.T.dot(expMeans)).T (line 247)
\* raises ValueError before it writes; the compiled sparse products that the
\* debug hook and line 243 apply to W and vocab either raise or go on.
\* var_bound in the debug hook inverts sigT with scipy.linalg.inv, which
\* raises ValueError on a non-finite entry, after the scan has printed
CtmTrain_Update ==
    /\ fn = "ctm.train" /\ pc \in TrainSteps
    /\ \E sparseRaises \in BOOLEAN :
         LET h == TrainUpdate(pc, Heap)
         IN  IF ~TermsAgree /\ pc = "vocab"
             THEN /\ SetHeap(CtmExpMeans(Heap))
                  /\ exc' = "ValueError"
                  /\ Finish(Raised(CtmExpMeans(Heap), "ValueError"))
                  /\ UNCHANGED <<last, stderr>>
             ELSE IF plan.debug /\ ((~TermsAgree /\ sparseRaises) \/ CheckFiniteRaises(h))
             THEN /\ SetHeap(h)
                  /\ ScanFor(pc, h)
                  /\ exc' = "ValueError"
                  /\ Finish(Raised(h, "ValueError"))
                  /\ UNCHANGED last
             ELSE /\ SetHeap(h)
                  /\ DebugFn(pc, h)
                  /\ pc' = TrainNext(pc)
                  /\ UNCHANGED <<exc, results>>
    /\ UNCHANGED <<fn, script, plan, W, arith, linalgIsValueError, fresh, itr, lastPerp, traceVars, stdout, entry>>

\* line 285
IsCheckpoint == plan.logFrequency > 0 /\ itr % plan.logFrequency = 0

\* line 292 / 301: the perplexity of a logged likelihood
TrainPerp(like, h) == perplexity_from_like(like, SumDocs(Get(h, "docLens")))

\* line 300-302: the early-stopping test at the checkpoint just logged
MinTrainIters == 30
\* TrainConverged with the floor compared strictly
TrainConverged_StrictFloor(likes, idx, h) ==
    /\ idx > 1
    /\ itr > MinTrainIters
    /\ TrainPerp(likes[idx], h) - TrainPerp(likes[idx + 1], h) < 1

\* TrainStopRule with the plan's epsilon as the threshold of the improvement
TrainStopRule_Epsilon(idx, i, prev, cur) ==
    /\ idx > 1
    /\ i >= MinTrainIters
    /\ prev - cur < plan.epsilon

\* lines 300 and 302: if bvIdx > 1 and boundIters[bvIdx] >= 30, then
\* lastPerp - perp < 1, as a rule on the index of the check, the iteration
\* index and the perplexities of the previous and of the current check
TrainStopRule(idx, i, prev, cur) ==
    /\ idx > 1
    /\ i >= MinTrainIters
    /\ prev - cur < 1

TrainConverged(likes, idx, h) ==
    /\ idx > 1
    /\ TrainStopRule(idx, itr, TrainPerp(likes[idx], h), TrainPerp(likes[idx + 1], h))

\* the loop head after an iteration
CtmTrain_Loop ==
    IF itr + 1 < plan.iterations
    THEN itr' = itr + 1 /\ pc' = "topicMean"
    ELSE itr' = itr /\ pc' = "return"

\* lines 285-305: a checkpoint. var_bound runs on the current tuples before
\* the trace arrays are indexed
CtmTrain_Log ==
    /\ fn = "ctm.train" /\ pc = "log"
    /\ IF ~IsCheckpoint
       THEN /\ CtmTrain_Loop
            /\ UNCHANGED <<exc, heapVars, traceVars, stderr, results>>
       ELSE LET h  == IF CheckFiniteRaises(Heap) THEN Heap ELSE VarBoundEffect(Heap)
                bv == DebugBound(Heap)
                lk == log_likelihood(W, Get(Heap, "means"), Get(Heap, "vocab"))
            IN  /\ SetHeap(h)
                /\ IF CheckFiniteRaises(Heap)
                   THEN /\ exc' = "ValueError"
                        /\ Finish(Raised(h, "ValueError"))
                        /\ UNCHANGED <<itr, traceVars, stderr>>
                   ELSE IF bvIdx >= Len(boundValues)
                   THEN /\ exc' = "IndexError"
                        /\ Finish(Raised(h, "IndexError"))
                        /\ UNCHANGED <<itr, traceVars, stderr>>
                   ELSE /\ boundValues'  = [boundValues  EXCEPT ![bvIdx + 1] = bv]
                        /\ likelyValues' = [likelyValues EXCEPT ![bvIdx + 1] = lk]
                        /\ boundIters'   = [boundIters   EXCEPT ![bvIdx + 1] = itr]
                        /\ stderr' = IF bvIdx > 0 /\ boundValues[bvIdx] > bv
                                     THEN stderr \cup {"ERROR: bound degradation"}
                                     ELSE stderr
                        /\ IF TrainConverged(likelyValues', bvIdx, h)
                           THEN /\ Finish(CtmTrainResult(h, TRUE,
                                        clamp(boundIters', boundValues', likelyValues', bvIdx)))
                                /\ UNCHANGED <<exc, itr, bvIdx>>
                           ELSE /\ bvIdx' = bvIdx + 1
                                /\ CtmTrain_Loop
                                /\ UNCHANGED <<exc, results>>
    /\ UNCHANGED <<fn, script, plan, W, arith, linalgIsValueError, fresh, lastPerp, last, stdout, entry>>

\* lines 308-311
CtmTrain_Return ==
    /\ fn = "ctm.train" /\ pc = "return"
    /\ Finish(CtmTrainResult(Heap, FALSE, <<boundIters, boundValues, likelyValues>>))
    /\ UNCHANGED <<fn, exc, script, plan, W, arith, linalgIsValueError, fresh, heapVars, itr, lastPerp, traceVars, last, stderr, stdout, entry>>

\* ------------------------------------------------------------------------
\* ctm_bohning_fast.query
\* ------------------------------------------------------------------------
\* newModelAtRandom, line 134: A = 0.5 * (eye(K) - 1/(K+1))
BohningA == [i \in Topic |-> [j \in Topic |->
    Times(Half, Minus(IF i = j THEN Num(1) ELSE Num(0), Recip(Num(K + 1))))]]

\* sigmoid_utils.scaledSelfSoftDot: sum_d docLens[d] * softmax(means[d]) . softmax(means[d])
scaledSelfSoftDot(means, docLens) ==
    LET sm == rowwise_softmax(means)
    IN  SumDocs([d \in Doc |-> Times(docLens[d],
            SumTopics([k \in Topic |-> Times(sm[d][k], sm[d][k])]))])

\* ctm_bohning_fast.var_bound (USE_NIW_PRIOR = False): the value it returns
bohning_var_bound_value(means, varcs, docLens, topicMean, sigT, vocab) ==
    LET isigT == inv(sigT)
        diff  == [d \in Doc |-> [k \in Topic |-> Minus(means[d][k], topicMean[k])]]
        e     == ExpShifted(means)
        R     == sparseScalarQuotientOfDot(W, e, vocab)
        V     == SMatrix(e, R, vocab)
        mV    == SumAllDK([d \in Doc |-> [k \in Topic |-> Times(means[d][k], V[d][k])]])
        b1 == Minus(Num(0), Times(Times(Num(D * K), Half), LN_OF_2_PI))
        b2 == Minus(b1, Times(Times(Num(D), Half), det(sigT)))
        b3 == Minus(b2, Times(Half, SumAllDK([d \in Doc |-> [k \in Topic |->
                  Times(VecMat(diff[d], isigT)[k], diff[d][k])]])))
        b4 == Minus(b3, Times(Half, SumAllDK([d \in Doc |-> [k \in Topic |->
                  Times(varcs[d][k], isigT[k][k])]])))
        b5 == Plus(b4, SumDocs([d \in Doc |-> Times(docLens[d], Ln(SumTopics(e[d])))]))
        b6 == Plus(b5, SumAllDT(sparseScalarProductOfSafeLnDot(W, e, vocab)))
        b7 == Plus(b6, mV)
        b8 == Plus(b7, SumAllDK([d \in Doc |-> [k \in Topic |->
                  Times(Times(Times(Num(2), docLens[d]), VecMat(means[d], BohningA)[k]),
                        means[d][k])]]))
        b9 == Minus(b8, Times(Num(2), scaledSelfSoftDot(means, docLens)))
        b10 == Minus(b9, Times(Half, SumAllDK([d \in Doc |-> [k \in Topic |->
                  Times(Times(docLens[d], V[d][k]), BohningA[k][k])]])))
    IN  Minus(b10, mV)

BohningDebugBound(h) == bohning_var_bound_value(Get(h, "means"), Get(h, "varcs"),
                            Get(h, "docLens"), Get(h, "topicMean"), Get(h, "sigT"),
                            Get(h, "vocab"))
\* _debug_with_bound of ctm_bohning_fast: old_bound = bound
BohningDebugFn(h) == IF plan.debug THEN last' = BohningDebugBound(h) ELSE UNCHANGED last

\* lines 343-346: isigT, and the variance update bound to the local name varcs
BohningQueryInit(h) ==
    LET h1 == Rebind(h, "isigT", inv(Get(h, "sigT")))
        n  == Get(h1, "docLens")
        isigT == Get(h1, "isigT")
    IN  Rebind(h1, "varcs", [d \in Doc |-> [k \in Topic |->
            Recip(Plus(Times(Times(n[d], Num(K - 1)), Recip(Num(K))), isigT[k][k]))]])

\* lines 352-359: expMeans through out=, V, and the right-hand side; the
\* softmax is written into the array means denotes (out=means)
BohningRhs(h) ==
    LET e  == ExpShifted(Get(h, "means"))
        R  == sparseScalarQuotientOfDot(W, e, Get(h, "vocab"))
        V  == SMatrix(e, R, Get(h, "vocab"))
        n  == Get(h, "docLens")
        it == MatVec(Get(h, "isigT"), Get(h, "topicMean"))
        sm == rowwise_softmax(Get(h, "means"))
    IN  [d \in Doc |-> [k \in Topic |->
           Minus(Plus(Plus(V[d][k], Times(n[d], VecMat(Get(h, "means")[d], BohningA)[k])),
                      it[k]),
                 Times(n[d], sm[d][k]))]]

BohningScratch(h) ==
    Store(Store(h, "expMeans", ExpShifted(Get(h, "means"))),
          "means", rowwise_softmax(Get(h, "means")))

\* line 364: the matrix inverted for document d
BohningDocSystem(h, d) ==
    LET n == Get(h, "docLens")  isigT == Get(h, "isigT")
    IN  [i \in Topic |-> [j \in Topic |-> Plus(isigT[i][j], Times(n[d], BohningA[i][j]))]]

\* the documents whose inversion raises, none of which is handled
BohningFailing(h) == {d \in Doc : Singular(BohningDocSystem(h, d))}
FirstOf(ds) == CHOOSE d \in ds : \A e \in ds : d <= e

\* lines 360-364: means = varcs * rhs rebinds the name; the loop of the
\* accurate mode writes the rows in place, up to the first failing document
BohningQueryMeans(h) ==
    LET rhs == BohningRhs(h)
        h1  == BohningScratch(h)
        cur == Get(h1, "means")
        bad == BohningFailing(h)
    IN  IF plan.fastButInaccurate
        THEN Rebind(h1, "means", [d \in Doc |-> [k \in Topic |->
                 Times(Get(h1, "varcs")[d][k], rhs[d][k])]])
        ELSE Store(h1, "means", [d \in Doc |->
                 IF bad # {} /\ d >= FirstOf(bad) THEN cur[d]
                 ELSE MatVec(inv(BohningDocSystem(h, d)), rhs[d])])

\* line 374: return modelState, queryState
BohningQueryResult(h) ==
    Returned(h, itr + 1 < plan.iterations, TRUE, [x \in ModelFields |-> "arg"],
                TRUE, [x \in QueryFields |-> "arg"], <<>>)

BohningQuery_Init ==
    /\ fn = "bohning.query" /\ pc = "init"
    /\ SetHeap(BohningQueryInit(Heap))
    /\ BohningDebugFn(BohningQueryInit(Heap))
    /\ lastPerp' = HugePerp
    /\ itr' = 0
    /\ pc' = IF plan.iterations > 0 THEN "means" ELSE "return"
    /\ UNCHANGED <<fn, exc, script, plan, W, arith, linalgIsValueError, fresh, traceVars, stderr, stdout, entry, results>>

BohningQuery_Means ==
    /\ fn = "bohning.query" /\ pc = "means"
    /\ SetHeap(BohningQueryMeans(Heap))
    /\ IF ~plan.fastButInaccurate /\ BohningFailing(Heap) # {}
       THEN /\ exc' = "LinAlgError"
            /\ Finish(Raised(BohningQueryMeans(Heap), "LinAlgError"))
            /\ UNCHANGED last
       ELSE /\ BohningDebugFn(BohningQueryMeans(Heap))
            /\ pc' = "perp"
            /\ UNCHANGED <<exc, results>>
    /\ UNCHANGED <<fn, script, plan, W, arith, linalgIsValueError, fresh, itr, lastPerp, traceVars, stderr, stdout, entry>>

BohningQuery_Perp ==
    /\ fn = "bohning.query" /\ pc = "perp"
    /\ IF QueryConverged(Heap)
       THEN /\ pc' = "return"
            /\ UNCHANGED <<itr, lastPerp>>
       ELSE /\ lastPerp' = QueryPerp(Heap)
            /\ IF itr + 1 < plan.iterations
               THEN itr' = itr + 1 /\ pc' = "means"
               ELSE itr' = itr /\ pc' = "return"
    /\ UNCHANGED <<fn, exc, script, plan, W, arith, linalgIsValueError, fresh, heapVars, traceVars, last, stderr, stdout, entry, results>>

BohningQuery_Return ==
    /\ fn = "bohning.query" /\ pc = "return"
    /\ Finish(BohningQueryResult(Heap))
    /\ UNCHANGED <<fn, exc, script, plan, W, arith, linalgIsValueError, fresh, heapVars, itr, lastPerp, traceVars, last, stderr, stdout, entry>>

\* ------------------------------------------------------------------------
\* ctm_bohning_fast.train
\* ------------------------------------------------------------------------
\* line 206: isigT = la.inv(sigT)
BohningTrainInit(h) == Rebind(h, "isigT", inv(Get(h, "sigT")))

\* lines 223-225 with USE_NIW_PRIOR = False: means.mean(axis=0)
BohningTopicMean(h) ==
    LET means == Get(h, "means")
    IN  Rebind(h, "topicMean", [k \in Topic |->
            Times(SumDocs([d \in Doc |-> means[d][k]]), Recip(Num(D)))])

\* lines 235-236: np.cov(means.T) plus the mean variances on the diagonal
BohningCov(h) ==
    LET means == Get(h, "means")  varcs == Get(h, "varcs")
        mu  == [k \in Topic |-> Times(SumDocs([d \in Doc |-> means[d][k]]), Recip(Num(D)))]
        dev == [d \in Doc |-> [k \in Topic |-> Minus(means[d][k], mu[k])]]
        vm  == [k \in Topic |-> Times(SumDocs([d \in Doc |-> varcs[d][k]]), Recip(Num(D)))]
    IN  [i \in Topic |-> [j \in Topic |->
           Plus(Times(SumDocs([d \in Doc |-> IF i = j THEN Sq(dev[d][i])
                                              ELSE Times(dev[d][i], dev[d][j])]),
                      Recip(Num(D - 1))),
                IF i = j THEN vm[i] ELSE Num(0))]]

\* lines 238-243: the covariance the M-step estimated, cut to its diagonal
\* when fastButInaccurate
BohningSigTEstimate(h) ==
    IF plan.fastButInaccurate THEN Diag(Diagonal(BohningCov(h))) ELSE BohningCov(h)

\* lines 245-247 (FIXME Undo debug): sigT = np.eye(K); isigT = la.inv(sigT)
BohningSigT(h) == Rebind(Rebind(h, "sigT", Eye), "isigT", inv(Eye))

\* lines 254-264: the vocabulary update of ctm.train, with V for S
BohningVocab(h) == CtmVocab(h)

\* line 272: the reciprocal of docLens * (K-1)/K + np.diagonal(sigT)
BohningVarcs(h) ==
    LET n == Get(h, "docLens")  sigT == Get(h, "sigT")
    IN  Rebind(h, "varcs", [d \in Doc |-> [k \in Topic |->
            Recip(Plus(Times(Times(n[d], Num(K - 1)), Recip(Num(K))), sigT[k][k]))]])

\* line 284: means = isigT.dot(rhs), a K x K matrix times a D x K matrix
DotAligned == Cardinality(Topic) = Cardinality(Doc)

\* lines 276-289: the right-hand side (the softmax written into the array
\* means denotes), then means bound to a new array.  isigT is the identity
\* here, so the matrix inverted for a document is positive definite
BohningTrainMeans(h) ==
    LET rhs == BohningRhs(h)
        h1  == BohningScratch(h)
    IN  IF plan.fastButInaccurate
        THEN Rebind(h1, "means", [d \in Doc |-> [k \in Topic |->
                 Times(Get(h1, "varcs")[d][k], rhs[d][k])]])
        ELSE IF DotAligned
        THEN Rebind(h1, "means", [d \in Doc |->
                 MatVec(inv(BohningDocSystem(h, d)), rhs[d])])
        ELSE h1

BohningTrainSteps == {"topicMean", "sigT", "vocab", "varcs", "means"}
BohningTrainNext(p) ==
    CASE p = "topicMean" -> "sigT"
      [] p = "sigT"      -> "vocab"
      [] p = "vocab"     -> "varcs"
      [] p = "varcs"     -> "means"
      [] p = "means"     -> "log"
BohningTrainUpdate(p, h) ==
    CASE p = "topicMean" -> BohningTopicMean(h)
      [] p = "sigT"      -> BohningSigT(h)
      [] p = "vocab"     -> BohningVocab(h)
      [] p = "varcs"     -> BohningVarcs(h)
      [] p = "means"     -> BohningTrainMeans(h)

\* the tuples train returns (lines 313-316)
BohningTrainResult(h, early, tr) ==
    Returned(h, early, FALSE, [x \in ModelFields |-> h.bind[x]],
                       FALSE, [x \in QueryFields |-> h.bind[x]], tr)

BohningTrain_Init ==
    /\ fn = "bohning.train" /\ pc = "init"
    /\ boundIters' = <<>> /\ boundValues' = <<>> /\ likelyValues' = <<>> /\ bvIdx' = 0
    /\ SetHeap(BohningTrainInit(Heap))
    /\ pc' = IF plan.iterations > 0 THEN "topicMean" ELSE "return"
    /\ UNCHANGED <<fn, exc, script, plan, W, arith, linalgIsValueError, fresh, itr, lastPerp, last, stderr, stdout, entry, results>>

\* one update of the iteration, followed by the debug hook; the accurate
\* means update raises ValueError at line 284 unless D = K
BohningTrain_Update ==
    /\ fn = "bohning.train" /\ pc \in BohningTrainSteps
    /\ SetHeap(BohningTrainUpdate(pc, Heap))
    /\ IF pc = "means" /\ ~plan.fastButInaccurate /\ ~DotAligned
       THEN /\ exc' = "ValueError"
            /\ Finish(Raised(BohningTrainUpdate(pc, Heap), "ValueError"))
            /\ UNCHANGED last
       ELSE /\ BohningDebugFn(BohningTrainUpdate(pc, Heap))
            /\ pc' = BohningTrainNext(pc)
            /\ UNCHANGED <<exc, results>>
    /\ UNCHANGED <<fn, script, plan, W, arith, linalgIsValueError, fresh, itr, lastPerp, traceVars, stderr, stdout, entry>>

\* lines 309-310: the early-stopping test at the checkpoint just logged
MinBohningIters == 100
MinBohningChecks == 3
Abs(x) == IF x < 0 THEN 0 - x ELSE x
BohningConverged(likes, h) ==
    /\ itr > MinBohningIters
    /\ Len(likes) > MinBohningChecks
    /\ Abs(TrainPerp(likes[Len(likes)], h) - TrainPerp(likes[Len(likes) - 1], h)) < 1

\* the loop head after an iteration
BohningTrain_Loop ==
    IF itr + 1 < plan.iterations
    THEN itr' = itr + 1 /\ pc' = "topicMean"
    ELSE itr' = itr /\ pc' = "return"

\* lines 295-311: a checkpoint; the degradation of the bound is printed to
\* stderr only if debug
BohningTrain_Log ==
    /\ fn = "bohning.train" /\ pc = "log"
    /\ IF ~IsCheckpoint
       THEN /\ BohningTrain_Loop
            /\ UNCHANGED <<heapVars, traceVars, stderr>>
       ELSE LET h  == VarBoundEffect(Heap)
                bv == BohningDebugBound(Heap)
                lk == log_likelihood(W, Get(Heap, "means"), Get(Heap, "vocab"))
            IN  /\ SetHeap(h)
                /\ boundValues'  = Append(boundValues, bv)
                /\ likelyValues' = Append(likelyValues, lk)
                /\ boundIters'   = Append(boundIters, itr)
                /\ bvIdx' = bvIdx + 1
                /\ stderr' = IF /\ Len(boundValues) > 0
                                /\ boundValues[Len(boundValues)] > bv
                                /\ plan.debug
                             THEN stderr \cup {"ERROR: bound degradation"}
                             ELSE stderr
                /\ IF Len(boundValues) > 0 /\ BohningConverged(likelyValues', h)
                   THEN itr' = itr /\ pc' = "break"
                   ELSE BohningTrain_Loop
    /\ UNCHANGED <<fn, exc, script, plan, W, arith, linalgIsValueError, fresh, lastPerp, last, stdout, entry, results>>

\* lines 313-316
BohningTrain_Return ==
    /\ fn = "bohning.train" /\ pc \in {"return", "break"}
    /\ Finish(BohningTrainResult(Heap, pc = "break", <<boundIters, boundValues, likelyValues>>))
    /\ UNCHANGED <<fn, exc, script, plan, W, arith, linalgIsValueError, fresh, heapVars, itr, lastPerp, traceVars, last, stderr, stdout, entry>>

\* ------------------------------------------------------------------------
\* Initialisation: dataset, newModelAtRandom, newQueryState
\* ------------------------------------------------------------------------
\* the datasets of the model: small count matrices in which every document
\* has positive length, some counts are zero and, for some w, a term occurs
\* in no document
WordsOfWidth(w, n) == [d \in Doc |-> [t \in 0 .. (n - 1) |->
    IF t = 0 THEN 1 + ((w + d) % 2)
    ELSE IF (w + t) % 2 = 0 THEN 0
    ELSE (w + d + t) % 3]]
Words(w) == WordsOfWidth(w, T)
RECURSIVE RowCount(_, _)
RowCount(r, t) == IF t < 0 THEN 0 ELSE r[t] + RowCount(r, t - 1)
DocLen(Wd, d) == RowCount(Wd[d], shape1(Wd, 1) - 1)
docLensOf(Wd) == [d \in Doc |-> Num(DocLen(Wd, d))]

\* rd.random / rd.randint under a seed
Rand(seed, i, j) == IF Signs THEN {"pos"} ELSE (seed + i * (j + 1) + 2 * j + 1) % P
RandDoc(seed, k) == 1 + ((seed + k) % D)
\* draws of document d until the summed length reaches MinSampleLen
Draws(Wd, d) == (MinSampleLen + DocLen(Wd, d) - 1) \div DocLen(Wd, d)

\* ctm.newModelAtRandom, lines 97-104: ones plus the counts of the sampled
\* documents
SampledCounts(Wd, seed) == [k \in Topic |-> [t \in DOMAIN Wd[1] |->
    Num(1 + Draws(Wd, RandDoc(seed, k)) * Wd[RandDoc(seed, k)][t])]]

\* ctm.newModelAtRandom, lines 96-114
newModelAtRandom(Wd, seed) ==
    [vocab |-> RowsOverSums(SampledCounts(Wd, seed), shape1(Wd, 1) - 1),
     topicMean |-> LET r == [k \in Topic |-> Rand(seed, 0, k)]
                   IN  [k \in Topic |-> Times(r[k], Recip(SumTopics(r)))],
     sigT |-> Eye]

\* ctm.newQueryState, lines 134-146
newQueryState(Wd, seed) ==
    LET base  == normalizerows_ip([d \in Doc |-> [c \in 0 .. (2 * K - 1) |-> Rand(seed, d, c)]],
                                  2 * K - 1)
        means == [d \in Doc |-> [k \in Topic |-> base[d][k]]]
        varcs == [d \in Doc |-> [k \in Topic |-> Num(1)]]
    IN  [means |-> means,
         expMeans |-> [d \in Doc |-> [k \in Topic |-> base[d][K + k]]],
         varcs |-> varcs,
         lxi |-> negJakkolaOfDerivedXi(means, varcs, ZeroD),
         s |-> ZeroD,
         docLens |-> docLensOf(Wd)]

\* the arrays a caller holds after newModelAtRandom and newQueryState
FreshArrays(Wd, seed) ==
    LET m == newModelAtRandom(Wd, seed)
        q == newQueryState(Wd, seed)
    IN  [x \in Names |->
           IF x \in ModelFields THEN m[x]
           ELSE IF x \in QueryFields THEN q[x]
           ELSE IF x \in Ghosts
           THEN SumsOfRowsOverSums(SampledCounts(Wd, seed), shape1(Wd, 1) - 1)
           ELSE IF x = "isigT" THEN ZeroKK ELSE ZeroDK]

NoArrays == [x \in Names |->
    IF x \in {"sigT", "isigT"} THEN ZeroKK
    ELSE IF x \in {"topicMean", "vocabSum"} THEN ZeroK
    ELSE IF x = "vocab" THEN [k \in Topic |-> [t \in Term |-> Num(0)]]
    ELSE IF x \in {"s", "docLens"} THEN ZeroD ELSE ZeroDK]

Plans(iters, freqs) ==
    [iterations : iters, epsilon : {2}, logFrequency : freqs,
     fastButInaccurate : BOOLEAN, debug : BOOLEAN]

\* ------------------------------------------------------------------------
\* The caller: makes the calls of its script one after the other
\* ------------------------------------------------------------------------
\* the numpy releases a script can tell apart: only ctm.query handles a
\* failure of scipy.linalg.inv
Builds(sc) == IF \E i \in DOMAIN sc : sc[i].fn = "ctm.query" THEN BOOLEAN ELSE {TRUE}

InitState(sc, Wd, seed) ==
    /\ script = sc
    /\ linalgIsValueError \in Builds(sc)
    /\ W = Wd
    /\ fresh = FreshArrays(Wd, seed)
    /\ fn = "none" /\ pc = "idle" /\ exc = "none"
    /\ plan = [iterations |-> 0, epsilon |-> 2, logFrequency |-> 0,
               fastButInaccurate |-> FALSE, debug |-> FALSE]
    /\ arg = FreshArrays(Wd, seed)
    /\ loc = NoArrays
    /\ bind = [x \in Names |-> IF x \in Temps THEN "loc" ELSE "arg"]
    /\ itr = 0 /\ lastPerp = HugePerp
    /\ boundIters = <<>> /\ boundValues = <<>> /\ likelyValues = <<>> /\ bvIdx = 0
    /\ last = 0
    /\ stderr = {} /\ stdout = {}
    /\ entry = FreshArrays(Wd, seed)
    /\ results = <<>>
\* the numbers of the behaviour are interpreted in Z_P
InitWith(sc, Wd, seed) == arith = "ring" /\ InitState(sc, Wd, seed)

\* a call unpacks the tuples it is given: every local name denotes the
\* caller's array
StartCall(c, a) ==
    /\ fn' = c.fn
    /\ plan' = c.plan
    /\ script' = Tail(script)
    /\ arg' = a
    /\ entry' = a
    /\ loc' = NoArrays
    /\ bind' = [x \in Names |-> IF x \in Temps THEN "loc" ELSE "arg"]
    /\ pc' = "init"
    /\ itr' = 0 /\ lastPerp' = HugePerp
    /\ boundIters' = <<>> /\ boundValues' = <<>> /\ likelyValues' = <<>> /\ bvIdx' = 0
    /\ W' = c.data
    /\ UNCHANGED <<exc, arith, linalgIsValueError, fresh, last, stderr, stdout, results>>

CanCall == pc \in {"idle", "done"} /\ script # <<>>

\* a call on freshly initialised model and query state
CallFresh ==
    /\ CanCall /\ Head(script).from = "fresh"
    /\ StartCall(Head(script), fresh)

\* a second call on the model the caller holds and an equal, freshly
\* initialised query state
CallRequery ==
    /\ CanCall /\ Head(script).from = "requery"
    /\ StartCall(Head(script),
                 [x \in Names |-> IF x \in ModelFields \cup Ghosts THEN arg[x] ELSE fresh[x]])

\* a call on the tuples the previous call returned
CallResume ==
    /\ CanCall /\ Head(script).from = "resume"
    /\ LET r == results[Len(results)]
       IN  StartCall(Head(script),
                 [x \in Names |-> IF x \in ModelFields THEN r.model[x]
                                  ELSE IF x \in QueryFields THEN r.query[x]
                                  ELSE IF x \in Ghosts THEN arg[x]
                                  ELSE fresh[x]])

\* ------------------------------------------------------------------------
\* var_bound called by the caller on the tuples a call returned
\* ------------------------------------------------------------------------
VarBoundResult(h, v) ==
    [fn |-> fn, outcome |-> "returned", plan |-> plan, value |-> v,
     before |-> entry, after |-> h.arg]

CtmVarBound ==
    /\ fn = "ctm.var_bound" /\ pc = "init"
    /\ SetHeap(VarBoundEffect(Heap))
    /\ Finish(VarBoundResult(VarBoundEffect(Heap), DebugBound(Heap)))
    /\ UNCHANGED <<fn, exc, script, plan, W, arith, linalgIsValueError, fresh, itr, lastPerp, traceVars, last, stderr, stdout, entry>>

BohningVarBound ==
    /\ fn = "bohning.var_bound" /\ pc = "init"
    /\ SetHeap(VarBoundEffect(Heap))
    /\ Finish(VarBoundResult(VarBoundEffect(Heap), BohningDebugBound(Heap)))
    /\ UNCHANGED <<fn, exc, script, plan, W, arith, linalgIsValueError, fresh, itr, lastPerp, traceVars, last, stderr, stdout, entry>>

\* ------------------------------------------------------------------------
\* Specification of querying: query called twice on the same model
\* ------------------------------------------------------------------------
BoundOf(f) == IF f = "ctm.query" THEN "ctm.var_bound" ELSE "bohning.var_bound"

\* a call of the caller's script: the function, its plan, the dataset and
\* where its ModelState and QueryState come from
CallOf(f, p, from, w, seed) ==
    [fn |-> f, plan |-> p, from |-> from, data |-> Words(w), seed |-> seed]
Seeds == 0 .. MaxSeed

QueryScripts ==
    {<<CallOf(f, p, "fresh", w, seed), CallOf(f, p, "requery", w, seed),
       CallOf(BoundOf(f), p, "resume", w, seed)>> :
        f \in {"ctm.query", "bohning.query"}, p \in Plans(0 .. MaxQueryIters, {0}),
        w \in Seeds, seed \in Seeds}

InitQuery == \E sc \in QueryScripts : InitWith(sc, sc[1].data, sc[1].seed)

NextQuery ==
    \/ CallFresh \/ CallRequery \/ CallResume
    \/ CtmQuery_Init \/ CtmQuery_Means \/ CtmQuery_Varcs \/ CtmQuery_Lxi \/ CtmQuery_S
    \/ CtmQuery_Perp \/ CtmQuery_Return
    \/ BohningQuery_Init \/ BohningQuery_Means \/ BohningQuery_Perp \/ BohningQuery_Return
    \/ CtmVarBound \/ BohningVarBound

SpecQuery == InitQuery /\ [][NextQuery]_vars

\* ------------------------------------------------------------------------
\* Claims about query and var_bound
\* ------------------------------------------------------------------------
IsQuery(r)  == r.fn \in {"ctm.query", "bohning.query"}
Finished    == {results[i] : i \in 1 .. Len(results)}
ReturnedBy(f) == {r \in Finished : r.fn = f /\ r.outcome = "returned"}

\* C1: query executes no M-step. Every query call (ctm.query and
\* ctm_bohning_fast.query, any number of iterations) returns the ModelState
\* tuple it was given, and the caller's topicMean, sigT and vocab arrays hold
\* after the call the values they held before it; while the call runs the
\* three names still denote the caller's arrays with their entry values.
C1_QueryLeavesModel ==
    /\ \A r \in Finished : IsQuery(r) =>
          /\ \A x \in ModelFields : r.after[x] = r.before[x]
          /\ r.outcome = "returned" =>
                /\ r.sameModelTuple
                /\ \A x \in ModelFields : r.model[x] = r.before[x]
    /\ fn \in {"ctm.query", "bohning.query"} =>
          \A x \in ModelFields : bind[x] = "arg" /\ arg[x] = entry[x]

C1_Witness ==
    \E r \in Finished :
        /\ IsQuery(r) /\ r.outcome = "returned" /\ r.executed = MaxQueryIters
        /\ r.after["means"] # r.before["means"]

\* C2: the QueryState returned by ctm_bohning_fast.query after at least one
\* iteration carries the means of the final means update and the varcs of
\* the variance update, i.e. the values the local names means and varcs hold
\* at the return, in both modes of fastButInaccurate.
C2_BohningQueryReturnsLastUpdate ==
    \A r \in ReturnedBy("bohning.query") : r.plan.iterations >= 1 =>
        /\ r.query["means"] = r.locals["means"]
        /\ r.query["varcs"] = r.locals["varcs"]

\* C3: two successive calls of ctm.query with the same ModelState, dataset
\* and plan and equal freshly initialised QueryStates return equal
\* QueryStates after the same number of iterations.
C3_QueryTwiceSame ==
    (Len(results) >= 2 /\ results[1].fn = "ctm.query") =>
        /\ results[2].outcome = results[1].outcome
        /\ results[2].executed = results[1].executed
        /\ results[2].query = results[1].query
        /\ results[2].model = results[1].model

C3_Witness ==
    /\ Len(results) >= 2 /\ results[1].fn = "ctm.query"
    /\ results[2].fn = "ctm.query" /\ results[2].executed = MaxQueryIters
    /\ results[2].plan.debug
    /\ results[2].query["means"] # fresh["means"]

\* C7: var_bound leaves every field of the ModelState and QueryState it is
\* given with the value it had before the call.
C7_VarBoundLeavesStates ==
    \A r \in Finished : r.fn \in {"ctm.var_bound", "bohning.var_bound"} =>
        \A x \in ModelFields \cup QueryFields : r.after[x] = r.before[x]

\* ------------------------------------------------------------------------
\* Specification of training: one call of ctm.train
\* ------------------------------------------------------------------------
MaxShortIters == 3
\* plans that reach the early-stopping floor of 30 iterations
LongPlans == {<<32, 1>>, <<32, 2>>, <<32, 10>>, <<40, 10>>, <<45, 15>>, <<60, 30>>}
IterFreqs == ((0 .. MaxShortIters) \X (0 .. MaxShortIters)) \cup LongPlans

TrainPlans == {p \in Plans(0 .. 60, 0 .. 30) : <<p.iterations, p.logFrequency>> \in IterFreqs}

TrainScripts == {<<CallOf("ctm.train", p, "fresh", w, seed)>> :
                    p \in TrainPlans, w \in Seeds, seed \in Seeds}

InitTrain == \E sc \in TrainScripts : InitWith(sc, sc[1].data, sc[1].seed)

NextTrain ==
    \/ CallFresh
    \/ CtmTrain_Init \/ CtmTrain_Update \/ CtmTrain_Log \/ CtmTrain_Return

SpecTrain == InitTrain /\ [][NextTrain]_vars

\* ------------------------------------------------------------------------
\* Claims about one call of ctm.train
\* ------------------------------------------------------------------------
\* what a local name denotes: the array and its contents
Den(x) == <<bind[x], Get(Heap, x)>>

\* C4: in every iteration of ctm.train the global updates run first, in the
\* order topicMean, sigT/isigT, vocab, and then the local updates in the
\* order varcs, means, lxi; each of these names is written only at its own
\* position, and the first update after the initialisation is topicMean.
C4_UpdateOrder ==
    [][(fn = "ctm.train" /\ fn' = "ctm.train") =>
        /\ (Den("topicMean")' # Den("topicMean")) => pc = "topicMean"
        /\ (Den("sigT")' # Den("sigT")) => pc = "sigT"
        /\ (Den("isigT")' # Den("isigT")) => pc \in {"init", "sigT"}
        /\ (Den("vocab")' # Den("vocab")) => pc = "vocab"
        /\ (Den("varcs")' # Den("varcs")) => pc = "varcs"
        /\ (Den("means")' # Den("means")) => pc = "means"
        /\ (Den("lxi")' # Den("lxi")) => pc = "lxi"
        /\ pc = "init" => pc' \in {"topicMean", "return", "raised"}
        /\ pc = "topicMean" => pc' = "sigT"
        /\ pc = "sigT" => pc' = "vocab"
        /\ pc = "vocab" => pc' = "varcs"
        /\ pc = "varcs" => pc' = "means"
        /\ pc = "means" => pc' = "lxi"
        /\ pc' = "topicMean" => pc \in {"init", "log"}
    ]_vars

C4_Witness ==
    /\ fn = "ctm.train" /\ itr = 1 /\ pc = "s"
    /\ Den("lxi") # <<"arg", entry["lxi"]>>
    /\ Get(Heap, "vocab") # entry["vocab"]

\* a checkpoint is being logged: the trace arrays take the entry of this
\* iteration
CheckpointLogged ==
    /\ fn = "ctm.train" /\ pc = "log"
    /\ plan.logFrequency >= 1 /\ itr % plan.logFrequency = 0
    /\ bvIdx < Len(likelyValues)
PerpOfLike(like) == perplexity_from_like(like, SumDocs(arg["docLens"]))
\* the perplexity improvement over the previous checkpoint is below 1
FlatSincePrevious ==
    /\ bvIdx >= 1
    /\ PerpOfLike(likelyValues[bvIdx]) - PerpOfLike(likelyValues'[bvIdx + 1]) < 1
\* the step returns the current state
ReturnsCurrentState ==
    /\ pc' = "done" /\ Len(results') = Len(results) + 1
    /\ LET r == results'[Len(results')]
       IN  /\ r.outcome = "returned" /\ r.early
           /\ r.model = [x \in ModelFields |-> Get(Heap, x)']
           /\ r.query = [x \in QueryFields |-> Get(Heap, x)']

\* C5: at every logged checkpoint with iteration index >= 30 and
\* perplexity improvement over the previous checkpoint below 1, train returns
\* the current state, and at no other checkpoint does it return.
C5_StopsExactlyUnderRule ==
    [][CheckpointLogged =>
         (ReturnsCurrentState <=> (itr >= 30 /\ FlatSincePrevious))]_vars

\* The rule of the code also requires two earlier checkpoints in the call.
\* At every logged checkpoint with iteration index >= 30 that is at least the
\* third checkpoint of the call (bvIdx > 1) and whose perplexity improvement
\* over the previous checkpoint is below 1, train returns the current state;
\* at every other logged checkpoint it continues with the next iteration or
\* the final return.
C5_StopsUnderRuleFromThirdCheckpoint ==
    [][CheckpointLogged =>
         (ReturnsCurrentState <=> (itr >= 30 /\ bvIdx > 1 /\ FlatSincePrevious))]_vars

C5_Witness ==
    \E r \in ReturnedBy("ctm.train") :
        r.early /\ r.executed < r.plan.iterations /\ r.executed >= 31

\* the checkpoints a call that executed n iterations has logged: one at
\* iteration 0 and one every logFrequency iterations after it
LoggedCheckpoints(n, lf) == ((n - 1) \div lf) + 1

\* C12: for every iterations >= 1 and logFrequency >= 1 ctm.train returns
\* normally, and its trace is three sequences of equal length with exactly
\* one entry per logged checkpoint, in strictly increasing iteration order;
\* no checkpoint is written outside the allocated trace arrays.
C12_TrainReturnsTrace ==
    \A r \in Finished :
        (r.fn = "ctm.train" /\ r.plan.iterations >= 1 /\ r.plan.logFrequency >= 1) =>
            /\ r.outcome = "returned"
            /\ Len(r.trace[1]) = LoggedCheckpoints(r.executed, r.plan.logFrequency)
            /\ Len(r.trace[2]) = Len(r.trace[1])
            /\ Len(r.trace[3]) = Len(r.trace[1])
            /\ \A i \in 1 .. (Len(r.trace[1]) - 1) : r.trace[1][i] < r.trace[1][i + 1]

\* ------------------------------------------------------------------------
\* Specification of resuming: ctm.train for N iterations in one call, and for
\* N - k iterations followed by a call for k iterations on the returned tuples
\* ------------------------------------------------------------------------
\* <<N, k, logFrequency>>
LongResumes == {<<32, 16, 1>>, <<32, 16, 2>>, <<40, 20, 10>>, <<45, 30, 15>>, <<60, 30, 30>>}
ResumeCases ==
    {c \in (2 .. MaxShortIters + 1) \X (1 .. MaxShortIters) \X (1 .. MaxShortIters) :
        c[2] < c[1]} \cup LongResumes

PlanOf(n, lf, fast, debug) ==
    [iterations |-> n, epsilon |-> 2, logFrequency |-> lf,
     fastButInaccurate |-> fast, debug |-> debug]

ResumeScripts ==
    {<<CallOf("ctm.train", PlanOf(c[1], c[3], fast, debug), "fresh", w, seed),
       CallOf("ctm.train", PlanOf(c[1] - c[2], c[3], fast, debug), "fresh", w, seed),
       CallOf("ctm.train", PlanOf(c[2], c[3], fast, debug), "resume", w, seed)>> :
        c \in ResumeCases, fast \in BOOLEAN, debug \in BOOLEAN, w \in Seeds, seed \in Seeds}

InitResume == \E sc \in ResumeScripts : InitWith(sc, sc[1].data, sc[1].seed)

NextResume ==
    \/ CallFresh \/ CallResume
    \/ CtmTrain_Init \/ CtmTrain_Update \/ CtmTrain_Log \/ CtmTrain_Return

SpecResume == InitResume /\ [][NextResume]_vars

\* the single call and the two calls of the split execution have returned
ResumeDone ==
    /\ Len(results) = 3
    /\ \A i \in 1 .. 3 : results[i].outcome = "returned"
SameFinalStates ==
    /\ results[1].model = results[3].model
    /\ results[1].query = results[3].query
    /\ results[1].executed = results[2].executed + results[3].executed

\* C6: training N iterations in one call and training N - k
\* iterations followed by k iterations on the returned states apply the same
\* updates and return the same states.
C6_ResumeEquivalent == ResumeDone => SameFinalStates

\* The two executions apply the same updates and return the same ModelState
\* and QueryState whenever all calls return and none of them stops early at
\* a checkpoint. (The early-stopping test reads the iteration index and the
\* checkpoint count of the running call, which restart at 0 in a resumed
\* call, so a single call may stop where the resumed calls go on.)
C6_ResumeEquivalentWithoutEarlyStop ==
    (ResumeDone /\ \A i \in 1 .. 3 : ~results[i].early) => SameFinalStates

C6_Witness ==
    /\ ResumeDone /\ \A i \in 1 .. 3 : ~results[i].early
    /\ results[1].executed >= 32
    /\ results[3].executed >= 2
    /\ results[3].model # results[2].model

\* ------------------------------------------------------------------------
\* Specification of initialisation: newQueryState called with a dataset and a
\* model whose vocabularies may differ in size
\* ------------------------------------------------------------------------
NewQueryStateFns == {"ctm.newQueryState", "bohning.newQueryState"}
\* the fields of the QueryState tuple of each module
FieldsOf(f) == IF f = "ctm.newQueryState" THEN QueryFields
               ELSE {"means", "expMeans", "varcs", "docLens"}
Widths == 1 .. (T + 1)

\* the whole of newQueryState: the assertion, then the construction of the
\* arrays of the new QueryState
NewQueryState ==
    /\ CanCall /\ Head(script).fn \in NewQueryStateFns
    /\ LET c == Head(script)
           q == newQueryState(c.data, c.seed)
           made == [x \in Names |-> IF x \in FieldsOf(c.fn) THEN q[x] ELSE NoArrays[x]]
       IN  /\ fn' = c.fn /\ plan' = c.plan /\ script' = Tail(script)
           /\ W' = c.data /\ entry' = arg
           /\ IF SameTermCount(c.data, arg["vocab"])
              THEN /\ loc' = made
                   /\ bind' = [x \in Names |-> IF x \in ModelFields THEN "arg" ELSE "loc"]
                   /\ results' = Append(results,
                          [fn |-> c.fn, outcome |-> "returned", data |-> c.data,
                           fields |-> FieldsOf(c.fn),
                           query |-> [x \in FieldsOf(c.fn) |-> made[x]],
                           before |-> arg, after |-> arg])
                   /\ pc' = "done"
                   /\ UNCHANGED exc
              ELSE /\ exc' = "AssertionError"
                   /\ results' = Append(results,
                          [fn |-> c.fn, outcome |-> "AssertionError", data |-> c.data,
                           before |-> arg, after |-> arg])
                   /\ pc' = "raised"
                   /\ UNCHANGED <<loc, bind>>
    /\ UNCHANGED <<arith, linalgIsValueError, fresh, arg, itr, lastPerp, traceVars, last, stderr, stdout>>

\* the caller holds a model made by newModelAtRandom on a dataset of tm
\* terms, no QueryState, and a dataset of td terms
InitNewQueryState ==
    \E f \in NewQueryStateFns, td \in Widths, tm \in Widths, w \in Seeds, seed \in Seeds :
        /\ arith = "ring"
        /\ LET m == newModelAtRandom(WordsOfWidth(w, tm), seed)
               held == [x \in Names |->
                           IF x \in ModelFields THEN m[x]
                           ELSE IF x \in Ghosts THEN FreshArrays(WordsOfWidth(w, tm), seed)[x]
                           ELSE NoArrays[x]]
           IN
            /\ script = <<[fn |-> f, plan |-> PlanOf(0, 0, FALSE, FALSE), from |-> "fresh",
                           data |-> WordsOfWidth(w, td), seed |-> seed]>>
            /\ W = WordsOfWidth(w, tm)
            /\ fresh = held /\ arg = held /\ entry = held
            /\ loc = NoArrays
            /\ bind = [x \in Names |-> IF x \in ModelFields THEN "arg" ELSE "loc"]
            /\ fn = "none" /\ pc = "idle" /\ exc = "none"
            /\ plan = PlanOf(0, 0, FALSE, FALSE)
            /\ itr = 0 /\ lastPerp = HugePerp
            /\ boundIters = <<>> /\ boundValues = <<>> /\ likelyValues = <<>> /\ bvIdx = 0
            /\ last = 0 /\ stderr = {} /\ stdout = {} /\ results = <<>>
            /\ linalgIsValueError \in Builds(<<>>)

SpecInit == InitNewQueryState /\ [][NewQueryState]_vars

\* C10: newQueryState raises and creates no QueryState whenever the number of
\* columns of dataset.words differs from the number of columns of
\* modelState.vocab, and returns a QueryState when they are equal; the
\* dataset and the vocabulary keep their shapes and contents, and the
\* document lengths are taken over all the columns of the dataset.
C10_NewQueryStateChecksTerms ==
    \A i \in 1 .. Len(results) :
        LET r == results[i]
        IN  r.fn \in NewQueryStateFns =>
              /\ shape1(r.data, 1) # shape1(r.before["vocab"], 0) =>
                    /\ r.outcome # "returned"
                    /\ pc = "raised" /\ loc = NoArrays
              /\ shape1(r.data, 1) = shape1(r.before["vocab"], 0) =>
                    /\ r.outcome = "returned"
                    /\ \A d \in Doc :
                          /\ DOMAIN r.query["means"][d] = Topic
                          /\ DOMAIN r.query["varcs"][d] = Topic
                          /\ r.query["docLens"][d] =
                                Num(RowCount(r.data[d], shape1(r.data, 1) - 1))
              /\ r.after = r.before
              /\ W = r.data

C10_Witness ==
    /\ \E i \in 1 .. Len(results) :
          /\ results[i].fn = "bohning.newQueryState"
          /\ results[i].outcome = "AssertionError"
          /\ shape1(results[i].data, 1) < shape1(results[i].before["vocab"], 0)
    /\ pc = "raised"

\* ------------------------------------------------------------------------
\* Specification of the signs: ctm.train and ctm.query, one on the states the
\* other returned, with every number interpreted as the set of its signs
\* ------------------------------------------------------------------------
\* train plans with the one checkpoint of iteration 0; query plans
SignTrainPlans == {PlanOf(n, n, fast, debug) :
                      n \in 1 .. MaxShortIters, fast \in BOOLEAN, debug \in BOOLEAN}
SignQueryPlans == {PlanOf(n, 0, fast, debug) :
                      n \in 0 .. MaxQueryIters, fast \in BOOLEAN, debug \in BOOLEAN}

SignScripts ==
    {<<CallOf("ctm.train", p, "fresh", w, seed), CallOf("ctm.query", q, "resume", w, seed)>> :
        p \in SignTrainPlans, q \in SignQueryPlans, w \in Seeds, seed \in Seeds}
    \cup
    {<<CallOf("ctm.query", q, "fresh", w, seed), CallOf("ctm.train", p, "resume", w, seed)>> :
        p \in SignTrainPlans, q \in SignQueryPlans, w \in Seeds, seed \in Seeds}

InitSign == \E sc \in SignScripts :
                arith = "sign" /\ InitState(sc, sc[1].data, sc[1].seed)

NextSign ==
    \/ CallFresh \/ CallResume
    \/ CtmTrain_Init \/ CtmTrain_Update \/ CtmTrain_Log \/ CtmTrain_Return
    \/ CtmQuery_Init \/ CtmQuery_Means \/ CtmQuery_Varcs \/ CtmQuery_Lxi \/ CtmQuery_S
    \/ CtmQuery_Perp \/ CtmQuery_Return

SpecSign == InitSign /\ [][NextSign]_vars

Positive    == {"pos"}
NonNegative == {"zero", "pos"}

\* C8: in the model created by newModelAtRandom and after every M-step of
\* ctm.train (and so in every state in between), every entry of vocab is
\* strictly positive and every row of vocab sums to 1: the row was divided by
\* a sum that is finite and not zero.
C8_VocabRowsAreDistributions ==
    \A k \in Topic :
        /\ \A t \in Term : Get(Heap, "vocab")[k][t] = Positive
        /\ Get(Heap, "vocabSum")[k] = {"one"}

C8_Witness ==
    /\ fn = "ctm.train" /\ itr = 1 /\ pc = "varcs"
    /\ \E t \in Term : \A d \in Doc : W[d][t] = 0
    /\ \A k \in Topic : Get(Heap, "vocabSum")[k] = {"one"}

\* C9: in every state reached from newQueryState by iterations of ctm.train
\* and ctm.query on documents of positive length, every entry of varcs is
\* strictly positive; every entry of lxi is non-negative and, once the
\* function has inverted sigT, the diagonal of isigT is strictly positive.
C9_VarcsPositive ==
    /\ \A d \in Doc : \A k \in Topic :
          /\ Get(Heap, "varcs")[d][k] = Positive
          /\ arg["varcs"][d][k] = Positive
          /\ Get(Heap, "lxi")[d][k] \subseteq NonNegative
    /\ pc \notin {"idle", "init"} =>
          \A k \in Topic : Get(Heap, "isigT")[k][k] = Positive
    /\ \A d \in Doc : DocLen(W, d) > 0

C9_Witness ==
    /\ Len(results) = 1 /\ results[1].fn = "ctm.train" /\ results[1].executed >= 2
    /\ fn = "ctm.query" /\ itr = 1 /\ pc = "lxi"
    /\ bind["varcs"] = "loc"
    /\ \E d \in Doc : Get(Heap, "s")[d] = Top

\* ------------------------------------------------------------------------
\* Specification of training on a dataset whose term count may differ from
\* the vocabulary's: ctm.train on fresh tuples, or on the tuples a ctm.query
\* returned
\* ------------------------------------------------------------------------
\* term counts of the dataset handed to train: the vocabulary's and a wider one
TrainWidths == {T, T + 1}
CallWith(f, p, from, Wd, seed) ==
    [fn |-> f, plan |-> p, from |-> from, data |-> Wd, seed |-> seed]

\* the scripts over the dataset Words(w) the model and query state were made from
MismatchScripts(w, seed) ==
    {<<CallWith("ctm.train", PlanOf(n, n, fast, debug), "fresh", WordsOfWidth(w, tw), seed)>> :
        n \in 1 .. MaxShortIters, fast \in BOOLEAN, debug \in BOOLEAN, tw \in TrainWidths}
    \cup
    {<<CallOf("ctm.query", PlanOf(q, 0, FALSE, FALSE), "fresh", w, seed),
       CallWith("ctm.train", PlanOf(n, n, fast, debug), "resume", WordsOfWidth(w, tw), seed)>> :
        q \in 1 .. MaxQueryIters, n \in 1 .. MaxShortIters, fast \in BOOLEAN,
        debug \in BOOLEAN, tw \in TrainWidths}

InitMismatch ==
    \E w \in Seeds, seed \in Seeds : \E sc \in MismatchScripts(w, seed) :
        InitWith(sc, Words(w), seed)

NextMismatch ==
    \/ CallFresh \/ CallResume
    \/ CtmQuery_Init \/ CtmQuery_Means \/ CtmQuery_Varcs \/ CtmQuery_Lxi \/ CtmQuery_S
    \/ CtmQuery_Perp \/ CtmQuery_Return
    \/ CtmTrain_Init \/ CtmTrain_Update \/ CtmTrain_Log \/ CtmTrain_Return

SpecMismatch == InitMismatch /\ [][NextMismatch]_vars

\* C11: ctm.train called with a dataset whose term count differs from the
\* column count of vocab fails before its first iteration starts (the call
\* never gets past its initialisation) and before any array of the passed
\* ModelState or QueryState has been modified.
C11_TrainChecksTerms ==
    (fn = "ctm.train" /\ ~TermsAgree) =>
        /\ pc \in {"init", "raised"}
        /\ arg = entry

\* ------------------------------------------------------------------------
\* Specification of the two trainers: one call of ctm.train or of
\* ctm_bohning_fast.train on fresh tuples
\* ------------------------------------------------------------------------
\* a plan of ctm_bohning_fast.train that passes its floor of 100 iterations
\* with more than three checkpoints
LongBohningPlans == {<<105, 26>>}
TrainerPlans(f) ==
    {p \in Plans(0 .. 105, 0 .. 26) :
        \/ <<p.iterations, p.logFrequency>> \in (0 .. MaxShortIters) \X (0 .. MaxShortIters)
        \/ f = "bohning.train" /\ <<p.iterations, p.logFrequency>> \in LongBohningPlans}
TrainerScripts ==
    {<<CallOf(f, p, "fresh", w, seed)>> :
        f \in {"ctm.train"}, p \in TrainerPlans("ctm.train"), w \in Seeds, seed \in Seeds}
    \cup
    {<<CallOf(f, p, "fresh", w, seed)>> :
        f \in {"bohning.train"}, p \in TrainerPlans("bohning.train"), w \in Seeds, seed \in Seeds}

InitTrainers == \E sc \in TrainerScripts : InitWith(sc, sc[1].data, sc[1].seed)

NextTrainers ==
    \/ CallFresh
    \/ CtmTrain_Init \/ CtmTrain_Update \/ CtmTrain_Log \/ CtmTrain_Return
    \/ BohningTrain_Init \/ BohningTrain_Update \/ BohningTrain_Log \/ BohningTrain_Return

SpecTrainers == InitTrainers /\ [][NextTrainers]_vars

IsTrain(r) == r.fn \in {"ctm.train", "bohning.train"}

\* C13: with logFrequency = 0 train (ctm.train and ctm_bohning_fast.train)
\* runs all its iterations without logging a checkpoint and returns normally
\* with an empty trace.
C13_NoLoggingReturnsEmptyTrace ==
    \A r \in Finished : (IsTrain(r) /\ r.plan.logFrequency = 0) =>
        /\ r.outcome = "returned"
        /\ r.executed = r.plan.iterations
        /\ \A i \in 1 .. 3 : r.trace[i] = <<>>

\* a checkpoint is being logged whose bound is lower than the bound logged
\* at the previous checkpoint of the call
BoundDegraded ==
    \/ /\ CheckpointLogged /\ bvIdx >= 1
       /\ boundValues[bvIdx] > boundValues'[bvIdx + 1]
    \/ /\ fn = "bohning.train" /\ pc = "log"
       /\ Len(boundValues) >= 1 /\ Len(boundValues') = Len(boundValues) + 1
       /\ boundValues[Len(boundValues)] > boundValues'[Len(boundValues')]

\* C14: whenever the bound logged at a checkpoint is lower than the bound of
\* the previous checkpoint, train (ctm.train and ctm_bohning_fast.train, for
\* every value of the debug flag) writes the bound-degradation warning and
\* goes on: nothing is raised and no array of the states is rolled back.
C14_DegradationWarned ==
    [][BoundDegraded =>
         /\ "ERROR: bound degradation" \in stderr'
         /\ exc' = exc /\ pc' # "raised"
         /\ \A x \in (ModelFields \cup QueryFields) \ {"expMeans"} : Den(x)' = Den(x)
    ]_vars

\* ------------------------------------------------------------------------
\* Specification of non-finite values: ctm.train on a QueryState one of whose
\* entries is not finite (as a diverged earlier run leaves it), with every
\* number interpreted as the set of its signs
\* ------------------------------------------------------------------------
Poisoned(a, x, d, k) == [a EXCEPT ![x][d][k] = {"nan"}]
PoisonedArrays(Wd, seed) ==
    {FreshArrays(Wd, seed)}
    \cup {Poisoned(FreshArrays(Wd, seed), x, d, k) :
              x \in {"means", "lxi"}, d \in Doc, k \in Topic}

NaNScripts == {<<CallOf("ctm.train", p, "fresh", w, seed)>> :
                  p \in SignTrainPlans, w \in Seeds, seed \in Seeds}

InitNaN ==
    /\ arith = "sign"
    /\ \E sc \in NaNScripts : \E a \in PoisonedArrays(sc[1].data, sc[1].seed) :
        /\ script = sc /\ W = sc[1].data
        /\ fresh = a /\ arg = a /\ entry = a
        /\ loc = NoArrays
        /\ bind = [x \in Names |-> IF x \in Temps THEN "loc" ELSE "arg"]
        /\ fn = "none" /\ pc = "idle" /\ exc = "none"
        /\ plan = [iterations |-> 0, epsilon |-> 2, logFrequency |-> 0,
                   fastButInaccurate |-> FALSE, debug |-> FALSE]
        /\ itr = 0 /\ lastPerp = HugePerp
        /\ boundIters = <<>> /\ boundValues = <<>> /\ likelyValues = <<>> /\ bvIdx = 0
        /\ last = 0 /\ stderr = {} /\ stdout = {} /\ results = <<>>
        /\ linalgIsValueError \in Builds(<<>>)

NextNaN ==
    \/ CallFresh
    \/ CtmTrain_Init \/ CtmTrain_Update \/ CtmTrain_Log \/ CtmTrain_Return

SpecNaN == InitNaN /\ [][NextNaN]_vars

\* the update of ctm.train that the step from pc writes, and the variable it
\* leaves non-finite
LeavesNonFinite(x) ==
    /\ fn = "ctm.train" /\ pc = x
    /\ pc' # pc
    /\ NonFinite(x, Get(Heap, x))'

\* C15: whenever an update of ctm.train leaves NaN or Inf in means, varcs,
\* sigT or vocab, a report that names the variable is written at that update
\* and the loop goes on to the next update instead of halting.
C15_NonFiniteReported ==
    [][\A x \in {"means", "varcs", "sigT", "vocab"} :
          LeavesNonFinite(x) =>
              /\ WarningOf(x) \in stderr'
              /\ pc' = TrainNext(x)
      ]_vars

\* ------------------------------------------------------------------------
\* The covariance update and the re-centring of ctm.train
\* ------------------------------------------------------------------------
\* the step of ctm.train that leaves pc = p has just been taken
TrainStepDone(p) == fn = "ctm.train" /\ pc = p /\ pc' = TrainNext(p)

\* C16: the covariance update of ctm.train follows fastButInaccurate: with
\* the flag, sigT is the diagonal of the estimate and isigT the reciprocals
\* of that diagonal; without it, sigT is the whole estimate and isigT its
\* matrix inverse.
C16_CovarianceFollowsFlag ==
    [][TrainStepDone("sigT") =>
          LET full == CtmSigTFull(Heap)
          IN  IF plan.fastButInaccurate
              THEN /\ Get(Heap, "sigT")'  = Diag(Diagonal(full))
                   /\ Get(Heap, "isigT")' = Diag([k \in Topic |-> Recip(full[k][k])])
              ELSE /\ Get(Heap, "sigT")'  = full
                   /\ Get(Heap, "isigT")' = inv(full)
      ]_vars

\* a caller that trains from the same fresh state under every setting of the
\* two switches of the plan, one call after the other
SwitchSettings == <<<<FALSE, FALSE>>, <<FALSE, TRUE>>, <<TRUE, FALSE>>, <<TRUE, TRUE>>>>
ConfigScripts ==
    {[i \in 1 .. Len(SwitchSettings) |->
         CallOf("ctm.train", PlanOf(n, lf, SwitchSettings[i][1], SwitchSettings[i][2]),
                "fresh", w, seed)] :
        n \in 1 .. MaxShortIters, lf \in 1 .. MaxShortIters, w \in Seeds, seed \in Seeds}

InitConfigs == \E sc \in ConfigScripts : InitWith(sc, sc[1].data, sc[1].seed)

NextConfigs ==
    \/ CallFresh
    \/ CtmTrain_Init \/ CtmTrain_Update \/ CtmTrain_Log \/ CtmTrain_Return

SpecConfigs == InitConfigs /\ [][NextConfigs]_vars

\* every call of the script has finished
AllConfigsTried == script = <<>> /\ Len(results) = Len(SwitchSettings)

\* C17: re-centring is controlled by the configuration: once ctm.train has
\* been run under every setting of the plan, at least one of the calls has
\* returned means that its last E-step left without re-centring, a document
\* whose first-column mean is not zero.
C17_RecentringConfigurable ==
    AllConfigsTried =>
        \E r \in Finished :
            /\ r.fn = "ctm.train" /\ r.outcome = "returned"
            /\ \E d \in Doc : r.query["means"][d][0] # Num(0)

\* ------------------------------------------------------------------------
\* The covariance update of ctm_bohning_fast.train
\* ------------------------------------------------------------------------
\* C18: after the covariance update of every iteration of
\* ctm_bohning_fast.train, sigT is the covariance that the update estimated
\* from the current means and varcs, and isigT is derived from that estimate:
\* these are the matrices the E-step goes on with.
C18_BohningSigTIsEstimate ==
    [][(fn = "bohning.train" /\ pc = "sigT" /\ pc' = BohningTrainNext("sigT")) =>
          LET est == BohningSigTEstimate(Heap)
          IN  /\ Get(Heap, "sigT")'  = est
              /\ Get(Heap, "isigT")' =
                     IF plan.fastButInaccurate
                     THEN Diag([k \in Topic |-> Recip(est[k][k])])
                     ELSE inv(est)
      ]_vars

\* ------------------------------------------------------------------------
\* Specification of long queries: ctm.query with enough iterations to pass
\* the floors of both stopping rules
\* ------------------------------------------------------------------------
LongQueryPlans == {PlanOf(n, 0, fast, debug) :
                      n \in {25, 34}, fast \in BOOLEAN, debug \in BOOLEAN}
LongQueryScripts == {<<CallOf("ctm.query", q, "fresh", w, seed)>> :
                        q \in LongQueryPlans, w \in Seeds, seed \in Seeds}

InitLongQuery == \E sc \in LongQueryScripts : InitWith(sc, sc[1].data, sc[1].seed)

NextLongQuery ==
    \/ CallFresh
    \/ CtmQuery_Init \/ CtmQuery_Means \/ CtmQuery_Varcs \/ CtmQuery_Lxi \/ CtmQuery_S
    \/ CtmQuery_Perp \/ CtmQuery_Return

SpecLongQuery == InitLongQuery /\ [][NextLongQuery]_vars

\* the convergence check of ctm.query at an iteration that is not the last
QueryCheck == fn = "ctm.query" /\ pc = "perp" /\ itr + 1 < plan.iterations

\* C19: ctm.query stops early under the rule of ctm.train. query checks at
\* every iteration, so its check number is its iteration index: at each
\* check it leaves the loop exactly when the rule of train, given the same
\* check number, iteration index and pair of perplexities, stops.
C19_QueryStopsAsTrain ==
    [][QueryCheck =>
          ((pc' = "return") <=> TrainStopRule(itr, itr, lastPerp, QueryPerp(Heap)))
      ]_vars

\* ------------------------------------------------------------------------
\* The local updates of ctm.query against the E-step of ctm.train
\* ------------------------------------------------------------------------
\* the E-step of ctm.train: the positions after the vocabulary update
LocalSteps == {"varcs", "means", "lxi", "s"}
FirstLocalStep == TrainNext("vocab")

\* C20: an iteration of ctm.query makes the local updates as the E-step of
\* ctm.train makes them: it starts with varcs, goes from each update to the
\* one that follows it in train (varcs, means, lxi), and treats s as train
\* does, whose position for s leaves the array as it is.
C20_QueryUpdatesAsTrain ==
    [][(fn = "ctm.query" /\ pc' # pc) =>
          /\ (pc \in {"init", "perp"} /\ pc' \in LocalSteps) => pc' = FirstLocalStep
          /\ (pc \in LocalSteps /\ pc' \in LocalSteps) => pc' = TrainNext(pc)
          /\ pc = "s" => Get(Heap, "s")' = Get(TrainUpdate("s", Heap), "s")
      ]_vars

\* ------------------------------------------------------------------------
\* Failed inversions in ctm.query
\* ------------------------------------------------------------------------
\* the means update of ctm.query taken in a state where the matrix of some
\* document cannot be inverted
FailedInversion ==
    /\ fn = "ctm.query" /\ pc = "means" /\ pc' # pc
    /\ QueryFailing(Heap) # {}

None == "None"
LdaDocs(Wl) == DOMAIN Wl

\* lda_cvb.newModelAtRandom lines 104-108: 50.0 / K and 0.01
LdaTopicPrior == Times(Num(50), Recip(Num(K)))
LdaVocabPrior == Recip(Num(100))

\* rd.dirichlet under a seed: a distribution over the topics for every token
Dirichlet(seed, d, n) ==
    [k \in Topic |-> IF k = 0 THEN Rand(seed, d, n)
                     ELSE IF k = 1 THEN Minus(Num(1), Rand(seed, d, n))
                     ELSE Num(0)]

\* the longest document of the datasets of the LDA behaviours
MaxLdaLen == 2
\* compiled.calculateCounts: the sums of z_dnk by document, by term, by topic
TokensOf(Wl, t) == {dn \in {<<d, n>> : d \in LdaDocs(Wl), n \in 1 .. MaxLdaLen} :
                       dn[2] \in DOMAIN Wl[dn[1]] /\ Wl[dn[1]][dn[2]] = t}
RECURSIVE SumOver(_, _, _)
SumOver(z, toks, k) ==
    IF toks = {} THEN Num(0)
    ELSE LET dn == CHOOSE x \in toks : TRUE
         IN  Plus(z[dn[1]][dn[2]][k], SumOver(z, toks \ {dn}, k))
calculateCounts(Wl, z) ==
    [n_dk |-> [d \in LdaDocs(Wl) |-> [k \in Topic |->
                  SumOver(z, {<<d, n>> : n \in DOMAIN Wl[d]}, k)]],
     n_kt |-> [k \in Topic |-> [t \in Term |-> SumOver(z, TokensOf(Wl, t), k)]],
     n_k  |-> [k \in Topic |-> SumOver(z, UNION {TokensOf(Wl, t) : t \in Term}, k)]]

\* lda_cvb.newQueryState lines 132-153
LdaNewQueryState(Wl, seed) ==
    LET z == [d \in LdaDocs(Wl) |-> [n \in DOMAIN Wl[d] |-> Dirichlet(seed, d, n)]]
        c == calculateCounts(Wl, z)
    IN  [q_n_dk |-> c.n_dk, q_n_kt |-> c.n_kt, q_n_k |-> c.n_k, z_dnk |-> z]

\* lines 211-213: the model counts are added to the query's, in place
LdaAdd(a) ==
    IF a.m_n_dk = None THEN a
    ELSE [a EXCEPT !.q_n_kt = [k \in Topic |-> [t \in Term |->
                                   Plus(a.q_n_kt[k][t], a.m_n_kt[k][t])]],
                   !.q_n_k  = [k \in Topic |-> Plus(a.q_n_k[k], a.m_n_k[k])]]

\* compiled.iterate, one token: its assignment is taken out of the counts,
\* recomputed from them and put back
LdaToken(a, Wl, d, n) ==
    LET t   == Wl[d][n]
        zo  == a.z_dnk[d][n]
        dk  == [k \in Topic |-> Minus(a.q_n_dk[d][k], zo[k])]
        kt  == [k \in Topic |-> Minus(a.q_n_kt[k][t], zo[k])]
        nk  == [k \in Topic |-> Minus(a.q_n_k[k], zo[k])]
        raw == [k \in Topic |->
                   Times(Times(Plus(dk[k], LdaTopicPrior), Plus(kt[k], LdaVocabPrior)),
                         Recip(Plus(nk[k], Times(Num(T), LdaVocabPrior))))]
        zn  == [k \in Topic |-> Times(raw[k], Recip(SumTopics(raw)))]
    IN  [a EXCEPT !.z_dnk[d][n] = zn,
                  !.q_n_dk[d]   = [k \in Topic |-> Plus(dk[k], zn[k])],
                  !.q_n_kt      = [k \in Topic |-> [u \in Term |->
                                      IF u = t THEN Plus(kt[k], zn[k]) ELSE a.q_n_kt[k][u]]],
                  !.q_n_k       = [k \in Topic |-> Plus(nk[k], zn[k])]]

\* compiled.iterate, one sweep over the tokens of the documents from d on
RECURSIVE LdaSweep(_, _, _, _)
LdaSweep(a, Wl, d, n) ==
    IF d \notin LdaDocs(Wl) THEN a
    ELSE IF n \notin DOMAIN Wl[d] THEN LdaSweep(a, Wl, d + 1, 1)
    ELSE LdaSweep(LdaToken(a, Wl, d, n), Wl, d, n + 1)

\* LdaFinishQuery that leaves the model's totals in the query's n_k
LdaFinishQuery_KeepsTotals(a) ==
    IF a.m_n_dk = None THEN a
    ELSE [a EXCEPT !.q_n_kt = [k \in Topic |-> [t \in Term |->
                                   Minus(a.q_n_kt[k][t], a.m_n_kt[k][t])]]]

\* lines 230-233, query: the model counts are taken out again
LdaFinishQuery(a) ==
    IF a.m_n_dk = None THEN a
    ELSE [a EXCEPT !.q_n_kt = [k \in Topic |-> [t \in Term |->
                                   Minus(a.q_n_kt[k][t], a.m_n_kt[k][t])]],
                   !.q_n_k  = [k \in Topic |-> Minus(a.q_n_k[k], a.m_n_k[k])]]

\* lines 234-242, train: the passed model's n_kt and n_k are overwritten in
\* place and n_dk is stacked into a new array, or all three are copies
LdaFinishTrain(a) ==
    [a EXCEPT !.m_n_dk = IF a.m_n_dk = None THEN <<a.q_n_dk>>
                         ELSE Append(a.m_n_dk, a.q_n_dk),
              !.m_n_kt = a.q_n_kt,
              !.m_n_k  = a.q_n_k]

\* lines 244-246: the returned ModelState, QueryState and trace
LdaReturned(a) ==
    [fn |-> fn, outcome |-> "returned", plan |-> plan, executed |-> itr,
     model |-> [n_dk |-> a.m_n_dk, n_kt |-> a.m_n_kt, n_k |-> a.m_n_k],
     query |-> [n_dk |-> a.q_n_dk, n_kt |-> a.q_n_kt, n_k |-> a.q_n_k, z_dnk |-> a.z_dnk],
     before |-> entry, after |-> a]

\* lines 281-304, log_likelihood: n_dk and n_kt are divided in place by their
\* row sums (as columns), then multiplied in place by the same sums as plain
\* vectors, which numpy broadcasts along the last axis: the product is
\* defined when the array has one row or as many columns as rows, and then
\* multiplies column j by the j-th sum
Broadcasts(rows, cols) == rows = 1 \/ rows = cols
ColumnSum(sums, rows, j) == IF rows = 1 THEN sums[1] ELSE sums[j + 1]
LdaDivided(a) ==
    [a EXCEPT !.q_n_dk = [d \in DOMAIN a.q_n_dk |-> [k \in Topic |->
                             Times(a.q_n_dk[d][k], Recip(SumTopics(a.q_n_dk[d])))]],
              !.m_n_kt = [k \in Topic |-> [t \in Term |->
                             Times(a.m_n_kt[k][t], Recip(SumTerms(a.m_n_kt[k])))]]]
LdaDocsRescaled(a, b) ==
    LET nd       == Cardinality(DOMAIN a.q_n_dk)
        doc_norm == [d \in DOMAIN a.q_n_dk |-> SumTopics(a.q_n_dk[d])]
    IN  [b EXCEPT !.q_n_dk = [d \in DOMAIN a.q_n_dk |-> [k \in Topic |->
                                 Times(b.q_n_dk[d][k], ColumnSum(doc_norm, nd, k))]]]
LdaTermsRescaled(a, b) ==
    LET voc_norm == [i \in 1 .. K |-> SumTerms(a.m_n_kt[i - 1])]
    IN  [b EXCEPT !.m_n_kt = [k \in Topic |-> [t \in Term |->
                                 Times(b.m_n_kt[k][t], ColumnSum(voc_norm, K, t))]]]

\* ------------------------------------------------------------------------
\* The caller of lda_cvb
\* ------------------------------------------------------------------------
\* a dataset of nd documents as word lists
LdaWords(w, nd) == [d \in 1 .. nd |-> [n \in 1 .. (1 + ((w + d) % MaxLdaLen)) |->
                       (w + d + n) % T]]

LdaStart(c) ==
    /\ pc \in {"idle", "done"} /\ script # <<>>
    /\ Head(script).fn \in {"lda.train", "lda.query", "lda.log_likelihood"}
    /\ LET a == IF c.from = "newQueryState"
                THEN LdaNewQueryState(c.data, c.seed) @@
                     [m_n_dk |-> arg.m_n_dk, m_n_kt |-> arg.m_n_kt, m_n_k |-> arg.m_n_k]
                ELSE arg
       IN  /\ arg' = a
           /\ entry' = a
    /\ fn' = c.fn /\ plan' = c.plan /\ W' = c.data
    /\ script' = Tail(script)
    /\ itr' = 0
    /\ pc' = IF c.fn = "lda.log_likelihood" THEN "likelihood" ELSE "add"
    /\ UNCHANGED <<arith, linalgIsValueError, exc, fresh, loc, bind, lastPerp, traceVars,
                   last, stderr, stdout, results>>
LdaCall == LdaStart(Head(script))

IsLdaRun == fn \in {"lda.train", "lda.query"}

\* lines 211-213
Lda_Add ==
    /\ IsLdaRun /\ pc = "add"
    /\ arg' = LdaAdd(arg)
    /\ pc' = IF plan.iterations > 0 THEN "iterate" ELSE "finish"
    /\ UNCHANGED <<arith, linalgIsValueError, fn, exc, script, plan, W, fresh, loc, bind, itr,
                   lastPerp, traceVars, last, stderr, stdout, entry, results>>

\* lines 216-225: one sweep of compiled.iterate
Lda_Iterate ==
    /\ IsLdaRun /\ pc = "iterate"
    /\ arg' = LdaSweep(arg, W, 1, 1)
    /\ itr' = itr + 1
    /\ pc' = IF itr + 1 < plan.iterations THEN "iterate" ELSE "finish"
    /\ UNCHANGED <<arith, linalgIsValueError, fn, exc, script, plan, W, fresh, loc, bind,
                   lastPerp, traceVars, last, stderr, stdout, entry, results>>

\* lines 229-246
Lda_Return ==
    /\ IsLdaRun /\ pc = "finish"
    /\ LET a == IF fn = "lda.query" THEN LdaFinishQuery(arg) ELSE LdaFinishTrain(arg)
       IN  /\ arg' = a
           /\ Finish(LdaReturned(a))
    /\ UNCHANGED <<arith, linalgIsValueError, fn, exc, script, plan, W, fresh, loc, bind, itr,
                   lastPerp, traceVars, last, stderr, stdout, entry>>

\* lines 281-304
Lda_LogLikelihood ==
    /\ fn = "lda.log_likelihood" /\ pc = "likelihood"
    /\ LET b  == LdaDivided(arg)
           b1 == LdaDocsRescaled(arg, b)
           b2 == LdaTermsRescaled(arg, b1)
           a  == IF ~Broadcasts(Cardinality(DOMAIN arg.q_n_dk), K) THEN b
                 ELSE IF ~Broadcasts(K, T) THEN b1
                 ELSE b2
           e  == IF Broadcasts(Cardinality(DOMAIN arg.q_n_dk), K) /\ Broadcasts(K, T)
                 THEN "returned" ELSE "ValueError"
       IN  /\ arg' = a
           /\ exc' = IF e = "returned" THEN exc ELSE e
           /\ Finish([fn |-> fn, outcome |-> e, plan |-> plan, before |-> entry, after |-> a])
    /\ UNCHANGED <<arith, linalgIsValueError, fn, script, plan, W, fresh, loc, bind, itr,
                   lastPerp, traceVars, last, stderr, stdout, entry>>

\* ------------------------------------------------------------------------
\* Specification of lda_cvb: a training from scratch, followed by a resumed
\* training on the same query state, by a query on the documents of another
\* dataset, or by log_likelihood
\* ------------------------------------------------------------------------
LdaDocCounts == {1, K, K + 1}
LdaCallOf(f, n, from, Wl, seed) ==
    [fn |-> f, plan |-> PlanOf(n, 0, FALSE, FALSE), from |-> from, data |-> Wl, seed |-> seed]
LdaScripts ==
    {<<LdaCallOf("lda.train", n1, "same", LdaWords(w, nd), seed),
       LdaCallOf(f, n2, IF f = "lda.query" THEN "newQueryState" ELSE "same",
                 LdaWords(IF f = "lda.query" THEN w + 1 ELSE w,
                          IF f = "lda.query" THEN nq ELSE nd), seed + 1)>> :
        f \in {"lda.train", "lda.query", "lda.log_likelihood"},
        n1 \in 1 .. MaxShortIters, n2 \in 0 .. MaxShortIters,
        w \in Seeds, seed \in Seeds, nd \in LdaDocCounts, nq \in LdaDocCounts}

InitLda ==
    /\ arith = "ring" /\ linalgIsValueError = TRUE
    /\ \E sc \in LdaScripts :
          /\ script = sc /\ W = sc[1].data
          /\ arg = LdaNewQueryState(sc[1].data, sc[1].seed) @@
                   [m_n_dk |-> None, m_n_kt |-> None, m_n_k |-> None]
    /\ entry = arg /\ fresh = arg
    /\ loc = <<>> /\ bind = <<>>
    /\ fn = "none" /\ pc = "idle" /\ exc = "none"
    /\ plan = PlanOf(0, 0, FALSE, FALSE)
    /\ itr = 0 /\ lastPerp = HugePerp
    /\ boundIters = <<>> /\ boundValues = <<>> /\ likelyValues = <<>> /\ bvIdx = 0
    /\ last = 0 /\ stderr = {} /\ stdout = {} /\ results = <<>>

NextLda == LdaCall \/ Lda_Add \/ Lda_Iterate \/ Lda_Return \/ Lda_LogLikelihood

SpecLda == InitLda /\ [][NextLda]_vars

\* a resumed training is about to iterate: the second call of the script, on
\* the model and the query state that the first training returned
ResumedLdaStarts ==
    /\ fn = "lda.train" /\ Len(results) = 1 /\ results[1].fn = "lda.train"
    /\ pc \in {"iterate", "finish"} /\ itr = 0

\* C22: resuming lda_cvb.train preserves the counts: the resumed iterations
\* start from the topic-term counts and topic totals with which the first
\* training ended, which are the ones a single longer run holds at that
\* iteration.
C22_ResumeKeepsCounts ==
    ResumedLdaStarts =>
        /\ arg.q_n_kt = results[1].query.n_kt
        /\ arg.q_n_k  = results[1].query.n_k

\* C23: lda_cvb.query on a trained model returns the model counts it was
\* given, unchanged in the caller's arrays, and query counts that are the
\* iterated totals minus the model's counts: the counts of the assignments
\* of the query's own tokens.
C23_QueryCountsNet ==
    [][(fn = "lda.query" /\ pc = "finish" /\ pc' = "done") =>
          LET r == results'[Len(results')]
          IN  /\ r.model = [n_dk |-> entry.m_n_dk, n_kt |-> entry.m_n_kt, n_k |-> entry.m_n_k]
              /\ \A x \in {"m_n_dk", "m_n_kt", "m_n_k"} : arg'[x] = entry[x]
              /\ \A k \in Topic :
                    /\ r.query.n_k[k] = Minus(arg.q_n_k[k], entry.m_n_k[k])
                    /\ \A t \in Term :
                          r.query.n_kt[k][t] = Minus(arg.q_n_kt[k][t], entry.m_n_kt[k][t])
              /\ r.query.n_kt = calculateCounts(W, r.query.z_dnk).n_kt
              /\ r.query.n_k  = calculateCounts(W, r.query.z_dnk).n_k
      ]_vars

C23_Witness ==
    /\ pc = "done" /\ Len(results) = 2
    /\ results[2].fn = "lda.query" /\ results[2].executed >= 1
    /\ \E k \in Topic : results[2].model.n_k[k] # Num(0)
    /\ results[2].query.z_dnk # results[2].before.z_dnk

\* C24: lda_cvb.log_likelihood returns, and leaves queryState.n_dk and
\* modelState.n_kt holding the counts they held before the call.
C24_LogLikelihoodRestores ==
    \A r \in Finished :
        r.fn = "lda.log_likelihood" =>
            /\ r.outcome = "returned"
            /\ r.after.q_n_dk = r.before.q_n_dk
            /\ r.after.m_n_kt = r.before.m_n_kt

\* C25: after ctm.train returns, the ModelState the caller passed in is
\* consistent: its topicMean, sigT and vocab arrays hold either all the values
\* they held before the call or all the values of the returned model.
C25_PassedModelConsistent ==
    \A r \in ReturnedBy("ctm.train") :
        \/ \A x \in {"topicMean", "sigT", "vocab"} : r.after[x] = r.before[x]
        \/ \A x \in {"topicMean", "sigT", "vocab"} : r.after[x] = r.model[x]

\* ------------------------------------------------------------------------
\* Specification of training after a query: ctm.train on the tuples that a
\* ctm.query returned, whose s holds the offsets the query computed
\* ------------------------------------------------------------------------
AfterQueryScripts ==
    {<<CallOf("ctm.query", PlanOf(q, 0, FALSE, FALSE), "fresh", w, seed),
       CallOf("ctm.train", PlanOf(n, n, FALSE, debug), "resume", w, seed)>> :
        q \in 1 .. MaxQueryIters, n \in 1 .. MaxShortIters, debug \in BOOLEAN,
        w \in Seeds, seed \in Seeds}
    \cup
    {<<CallOf("ctm.query", PlanOf(1, 0, FALSE, FALSE), "fresh", w, seed),
       CallOf("ctm.train", PlanOf(MinTrainIters + 2, 1, FALSE, FALSE), "resume", w, seed)>> :
        w \in {0}, seed \in Seeds}

InitAfterQuery == \E sc \in AfterQueryScripts : InitWith(sc, sc[1].data, sc[1].seed)

NextAfterQuery ==
    \/ CallFresh \/ CallResume
    \/ CtmQuery_Init \/ CtmQuery_Means \/ CtmQuery_Varcs \/ CtmQuery_Lxi \/ CtmQuery_S
    \/ CtmQuery_Perp \/ CtmQuery_Return
    \/ CtmTrain_Init \/ CtmTrain_Update \/ CtmTrain_Log \/ CtmTrain_Return

SpecAfterQuery == InitAfterQuery /\ [][NextAfterQuery]_vars

\* ctm.train is past its initialisation
TrainInitialised == fn = "ctm.train" /\ pc \notin {"idle", "init"}

\* C26: during ctm.train the offset s is zero for every document at every
\* point after the initialisation, whatever s the passed QueryState held, and
\* the QueryState that train returns, at an early stop or after the last
\* iteration, has s = 0.
C26_OffsetStaysZero ==
    /\ TrainInitialised => Get(Heap, "s") = ZeroD
    /\ \A r \in ReturnedBy("ctm.train") : r.query["s"] = ZeroD

C26_Witness ==
    \E r \in ReturnedBy("ctm.train") :
        /\ r.before["s"] # ZeroD
        /\ r.executed >= 1
        /\ r.query["s"] = ZeroD

\* the same at an early stop
EarlyStopAfterQuery ==
    \E r \in ReturnedBy("ctm.train") : r.before["s"] # ZeroD /\ r.early

\* ------------------------------------------------------------------------
\* Specification of epsilon: the same call made twice on equal, freshly
\* initialised tuples, under plans that differ in epsilon only
\* ------------------------------------------------------------------------
\* the values of epsilon other than the default of newTrainPlan
OtherEpsilons == {0, 3}
EpsilonPlans(f) ==
    IF f = "ctm.train"
    THEN {PlanOf(n, n, FALSE, FALSE) : n \in 1 .. MaxShortIters}
            \cup {PlanOf(MinTrainIters + 2, 1, FALSE, FALSE)}
    ELSE {PlanOf(n, 0, FALSE, FALSE) : n \in 1 .. MaxQueryIters}
            \cup {PlanOf(MinQueryIters + 5, 0, FALSE, FALSE)}
EpsilonScripts ==
    UNION {{<<CallOf(f, p, "fresh", w, seed),
              CallOf(f, [p EXCEPT !.epsilon = e], "fresh", w, seed)>> :
               p \in EpsilonPlans(f), e \in OtherEpsilons, w \in Seeds, seed \in Seeds} :
           f \in {"ctm.train", "ctm.query"}}

InitEpsilon == \E sc \in EpsilonScripts : InitWith(sc, sc[1].data, sc[1].seed)

NextEpsilon ==
    \/ CallFresh
    \/ CtmTrain_Init \/ CtmTrain_Update \/ CtmTrain_Log \/ CtmTrain_Return
    \/ CtmQuery_Init \/ CtmQuery_Means \/ CtmQuery_Varcs \/ CtmQuery_Lxi \/ CtmQuery_S
    \/ CtmQuery_Perp \/ CtmQuery_Return

SpecEpsilon == InitEpsilon /\ [][NextEpsilon]_vars

\* two finished calls of one function on equal tuples
SameCall(r1, r2) == r1.fn = r2.fn /\ r1.before = r2.before
\* two finished calls ended alike: the same exception, or the same number of
\* iterations, the same returned states and the same trace
SameResult(r1, r2) ==
    /\ r1.outcome = r2.outcome
    /\ r1.after = r2.after
    /\ r1.outcome = "returned" =>
          /\ r1.executed = r2.executed /\ r1.early = r2.early
          /\ r1.model = r2.model /\ r1.query = r2.query
          /\ r1.trace = r2.trace

\* C27: plan.epsilon has no effect on ctm.train or ctm.query: two runs on
\* equal inputs under plans that differ only in epsilon execute the same
\* number of iterations and return the same states and the same trace.
C27_EpsilonIgnored ==
    \A r1 \in Finished, r2 \in Finished :
        (/\ r1.fn \in {"ctm.train", "ctm.query"}
         /\ SameCall(r1, r2)
         /\ [r1.plan EXCEPT !.epsilon = 0] = [r2.plan EXCEPT !.epsilon = 0])
        => SameResult(r1, r2)

C27_Witness ==
    /\ pc = "done" /\ Len(results) = 2
    /\ results[1].plan.epsilon # results[2].plan.epsilon
    /\ results[2].executed > MinQueryIters
    /\ results[2].executed < results[2].plan.iterations

\* ------------------------------------------------------------------------
\* Specification of the debug flag: ctm.train called twice on equal tuples,
\* without and then with trainPlan.debug, the numbers interpreted as signs
\* and one entry of means or lxi possibly non-finite
\* ------------------------------------------------------------------------
DebugScripts ==
    {<<CallOf("ctm.train", PlanOf(n, n, fast, FALSE), "fresh", w, seed),
       CallOf("ctm.train", PlanOf(n, n, fast, TRUE), "fresh", w, seed)>> :
        n \in 1 .. MaxShortIters, fast \in BOOLEAN, w \in Seeds, seed \in Seeds}

InitDebug ==
    /\ arith = "sign"
    /\ \E sc \in DebugScripts : \E a \in PoisonedArrays(sc[1].data, sc[1].seed) :
        /\ script = sc /\ W = sc[1].data
        /\ fresh = a /\ arg = a /\ entry = a
        /\ loc = NoArrays
        /\ bind = [x \in Names |-> IF x \in Temps THEN "loc" ELSE "arg"]
        /\ fn = "none" /\ pc = "idle" /\ exc = "none"
        /\ plan = [iterations |-> 0, epsilon |-> 2, logFrequency |-> 0,
                   fastButInaccurate |-> FALSE, debug |-> FALSE]
        /\ itr = 0 /\ lastPerp = HugePerp
        /\ boundIters = <<>> /\ boundValues = <<>> /\ likelyValues = <<>> /\ bvIdx = 0
        /\ last = 0 /\ stderr = {} /\ stdout = {} /\ results = <<>>
        /\ linalgIsValueError \in Builds(<<>>)

NextDebug ==
    \/ CallFresh
    \/ CtmTrain_Init \/ CtmTrain_Update \/ CtmTrain_Log \/ CtmTrain_Return

SpecDebug == InitDebug /\ [][NextDebug]_vars

NewModelFns == {"ctm.newModelAtRandom", "bohning.newModelAtRandom"}
\* ctm.py line 98 range(K); ctm_bohning_fast.py line 116 range(1, K)
FirstSampledTopic(f) == IF f = "ctm.newModelAtRandom" THEN 0 ELSE 1

\* docLenSum that no draw increases
AddLength_Nothing(sum, n) == sum

\* ctm.py line 104, ctm_bohning_fast.py line 120: docLenSum += sample_doc.sum()
AddLength(sum, n) == sum + n

\* ctm.py line 100: while docLenSum < 1000
KeepSampling(sum) == sum < MinSampleLen

\* a dataset all of whose documents are empty
EmptyWords == [d \in Doc |-> [t \in Term |-> 0]]

NewModelCall ==
    /\ pc = "idle" /\ script # <<>>
    /\ Head(script).fn \in NewModelFns
    /\ fn' = Head(script).fn /\ plan' = Head(script).plan
    /\ script' = Tail(script)
    /\ loc' = [k |-> FirstSampledTopic(Head(script).fn), docLenSum |-> 0,
               vocab |-> [k \in Topic |-> [t \in Term |-> Num(1)]],
               seed |-> Head(script).seed]
    /\ pc' = "for"
    /\ UNCHANGED <<arith, linalgIsValueError, exc, W, fresh, arg, bind, itr, lastPerp,
                   traceVars, last, stderr, stdout, entry, results>>

\* ctm.py lines 98-99, ctm_bohning_fast.py lines 116-117
NewModel_Topic ==
    /\ fn \in NewModelFns /\ pc = "for"
    /\ IF loc.k \in Topic
       THEN loc' = [loc EXCEPT !.docLenSum = 0] /\ pc' = "while"
       ELSE loc' = loc /\ pc' = "rest"
    /\ UNCHANGED <<arith, linalgIsValueError, fn, exc, script, plan, W, fresh, arg, bind, itr,
                   lastPerp, traceVars, last, stderr, stdout, entry, results>>

\* ctm.py lines 100-105, ctm_bohning_fast.py lines 117-122: one draw of the
\* while loop, or the normalisation of the row when the loop has ended
NewModel_Draw ==
    /\ fn \in NewModelFns /\ pc = "while"
    /\ IF KeepSampling(loc.docLenSum)
       THEN /\ \E randomDoc \in Doc :
                 loc' = [loc EXCEPT
                           !.vocab[loc.k] = [t \in Term |->
                               Plus(loc.vocab[loc.k][t], Num(W[randomDoc][t]))],
                           !.docLenSum = AddLength(loc.docLenSum, DocLen(W, randomDoc))]
            /\ pc' = "while"
       ELSE /\ loc' = [loc EXCEPT
                         !.vocab[loc.k] = [t \in Term |->
                             Times(loc.vocab[loc.k][t],
                                   Recip(SumRange(loc.vocab[loc.k], 0, T - 1)))],
                         !.k = loc.k + 1]
            /\ pc' = "for"
    /\ UNCHANGED <<arith, linalgIsValueError, fn, exc, script, plan, W, fresh, arg, bind, itr,
                   lastPerp, traceVars, last, stderr, stdout, entry, results>>

\* ctm_bohning_fast.py lines 124-126: the stop-word row of the Bohning model
StopWordRow(Wd) ==
    LET sums == [t \in Term |-> SumDocs([d \in Doc |-> Num(Wd[d][t])])]
    IN  [t \in Term |-> Times(sums[t], Recip(SumRange(sums, 0, T - 1)))]

\* ctm.py lines 107-114, ctm_bohning_fast.py lines 124-140: topicMean, sigT
\* and the returned ModelState
NewModel_Return ==
    /\ fn \in NewModelFns /\ pc = "rest"
    /\ LET r == [k \in Topic |-> Rand(loc.seed, 0, k)]
           v == IF fn = "ctm.newModelAtRandom" THEN loc.vocab
                ELSE [loc.vocab EXCEPT ![0] = StopWordRow(W)]
       IN  /\ loc' = [loc EXCEPT !.vocab = v]
           /\ Finish([fn |-> fn, outcome |-> "returned", plan |-> plan,
                      model |-> [vocab |-> v,
                                 topicMean |-> [k \in Topic |->
                                                   Times(r[k], Recip(SumTopics(r)))],
                                 sigT |-> Eye],
                      before |-> entry, after |-> arg])
    /\ UNCHANGED <<arith, linalgIsValueError, fn, exc, script, plan, W, fresh, arg, bind, itr,
                   lastPerp, traceVars, last, stderr, stdout, entry>>

\* ------------------------------------------------------------------------
\* Specification of newModelAtRandom: one call, on a dataset whose documents
\* all have positive length or are all empty; every step of the call that
\* can be taken is eventually taken
\* ------------------------------------------------------------------------
NewModelScripts ==
    {<<[fn |-> f, plan |-> PlanOf(0, 0, FALSE, FALSE), from |-> "fresh", data |-> Wd,
        seed |-> seed]>> :
        f \in NewModelFns, Wd \in {Words(w) : w \in Seeds} \cup {EmptyWords}, seed \in Seeds}

InitNewModel ==
    /\ arith = "ring" /\ linalgIsValueError = TRUE
    /\ \E sc \in NewModelScripts : script = sc /\ W = sc[1].data
    /\ arg = <<>> /\ entry = <<>> /\ fresh = <<>>
    /\ loc = <<>> /\ bind = <<>>
    /\ fn = "none" /\ pc = "idle" /\ exc = "none"
    /\ plan = PlanOf(0, 0, FALSE, FALSE)
    /\ itr = 0 /\ lastPerp = HugePerp
    /\ boundIters = <<>> /\ boundValues = <<>> /\ likelyValues = <<>> /\ bvIdx = 0
    /\ last = 0 /\ stderr = {} /\ stdout = {} /\ results = <<>>

NextNewModel == NewModelCall \/ NewModel_Topic \/ NewModel_Draw \/ NewModel_Return

SpecNewModel == InitNewModel /\ [][NextNewModel]_vars /\ WF_vars(NextNewModel)

\* every document of the dataset has length at least 1
DocsNonEmpty == \A d \in Doc : DocLen(W, d) >= 1

\* C29: newModelAtRandom terminates for every dataset in which every
\* document has length at least 1 (K >= 2): for each topic the loop that
\* accumulates documents until their summed length reaches 1000 ends, and
\* the call returns.
C29_SamplingTerminates == DocsNonEmpty => <>(pc = "done")

C29_Witness ==
    /\ pc = "done" /\ DocsNonEmpty
    /\ results[1].fn \in NewModelFns
    /\ loc.k = K /\ loc.docLenSum >= MinSampleLen

\* ------------------------------------------------------------------------
\* old/sidetopic_uy.train and the buffer that lmda and expLmda share.  The
\* buffer is held as the matrix lmda it was made from and the number of
\* exponentials applied to it: np.exp(x, out=x) adds one and np.log(x, out=x)
\* takes one away, so the buffer holds exp(lmda) exactly when the number is 1
\* and lmda when it is 0.  plan.debug stands for the module constant DEBUG,
\* plan.logFrequency for the plan's logCount.  loc holds logIter and the
\* handovers of the buffer made so far: to whom, at which update, under which
\* parameter name and with how many exponentials
\* ------------------------------------------------------------------------
ExpInPlace(b) == [b EXCEPT !.exps = @ + 1]
LogInPlace(b) == [b EXCEPT !.exps = @ - 1]
Handover(to, at, name, b) == [to |-> to, at |-> at, name |-> name, exps |-> b.exps]

\* _quickPrintElbo, lines 254-353, called with the buffer as lmda or as
\* expLmda: the buffer after the call and the handovers made
quickPrintElbo(at, name, b) ==
    LET passed == IF name = "lmda" THEN ExpInPlace(b) ELSE b
        logged == LogInPlace(passed)
    IN  [buf    |-> IF name = "expLmda" THEN ExpInPlace(logged) ELSE logged,
         handed |-> {Handover("debug", at, name, b),
                     Handover("varBound", at, "expLmda", passed)}]

\* verify_and_log = _quickPrintElbo if DEBUG else _doNothing, line 103
verify_and_log(at, name, b) ==
    IF plan.debug THEN quickPrintElbo(at, name, b) ELSE [buf |-> b, handed |-> {}]

\* the updates of an iteration that are followed by a call of verify_and_log
UySteps == <<"sigY", "Y", "A", "U", "sigT">>
UyNext(step) == IF step = "sigT" THEN "log"
                ELSE UySteps[1 + CHOOSE i \in DOMAIN UySteps : UySteps[i] = step]
\* lines 161 and 201: np.exp(expLmda, out=expLmda), lmda = np.log(expLmda, out=expLmda)
UyTransform(step, b) == IF step = "A" THEN ExpInPlace(b)
                        ELSE IF step = "sigT" THEN LogInPlace(b)
                        ELSE b
\* the name under which each call of verify_and_log passes the buffer
UyPassedAs(step) == IF step \in {"sigY", "Y"} THEN "lmda" ELSE "expLmda"

UyCall ==
    /\ pc = "idle" /\ script # <<>> /\ Head(script).fn = "uy.train"
    /\ fn' = "uy.train" /\ plan' = Head(script).plan /\ script' = Tail(script)
    /\ pc' = "init"
    /\ UNCHANGED <<arith, linalgIsValueError, exc, W, fresh, arg, loc, bind, itr, lastPerp,
                   traceVars, last, stderr, stdout, entry, results>>

\* lines 94-137: logIter, the initial expLmda = np.exp(rd.random((D, K))) and
\* lmda = np.log(expLmda, out=expLmda)
UyTrain_Init ==
    /\ fn = "uy.train" /\ pc = "init"
    /\ loc' = [logIter |-> IF plan.logFrequency > 0 THEN 1 ELSE plan.iterations + 1,
               handed  |-> {}]
    /\ arg' = [expLmda |-> LogInPlace(ExpInPlace([of |-> fresh, exps |-> 0]))]
    /\ itr' = 0
    /\ pc' = IF plan.iterations > 0 THEN "sigY" ELSE "return"
    /\ UNCHANGED <<arith, linalgIsValueError, fn, exc, script, plan, W, fresh, bind, lastPerp,
                   traceVars, last, stderr, stdout, entry, results>>

\* lines 151-210: one update, the transformation of the buffer that goes with
\* it, and the call of verify_and_log that follows it
UyTrain_Update ==
    /\ fn = "uy.train" /\ pc \in {UySteps[i] : i \in DOMAIN UySteps}
    /\ LET b == UyTransform(pc, arg.expLmda)
           v == verify_and_log(pc, UyPassedAs(pc), b)
       IN  /\ arg' = [arg EXCEPT !.expLmda = v.buf]
           /\ loc' = [loc EXCEPT !.handed = @ \cup v.handed]
    /\ pc' = UyNext(pc)
    /\ UNCHANGED <<arith, linalgIsValueError, fn, exc, script, plan, W, fresh, bind, itr,
                   lastPerp, traceVars, last, stderr, stdout, entry, results>>

\* line 231: logIter = min(np.ceil(logIter * multiStepSize), iterations - 1),
\* with multiStepSize = iterations ** (1 / logCount) for logCount = 1
UyNextLogIter(logIter) ==
    IF logIter * plan.iterations < plan.iterations - 1
    THEN logIter * plan.iterations ELSE plan.iterations - 1

\* lines 216-236 and the for statement: at a logged iteration the buffer is
\* exponentiated, wrapped in the query state given to varBound and put back
\* in log form; the loop is left when the bound moved less than epsilon
UyTrain_Log ==
    /\ fn = "uy.train" /\ pc = "log"
    /\ \E converged \in BOOLEAN :
         IF itr = loc.logIter
         THEN /\ loc' = [loc EXCEPT
                           !.handed  = @ \cup {Handover("varBound", "log", "expLmda",
                                                        ExpInPlace(arg.expLmda))},
                           !.logIter = UyNextLogIter(loc.logIter)]
              /\ arg' = [arg EXCEPT !.expLmda = LogInPlace(ExpInPlace(arg.expLmda))]
              /\ IF converged \/ itr + 1 >= plan.iterations
                 THEN pc' = "return" /\ itr' = itr
                 ELSE pc' = "sigY" /\ itr' = itr + 1
         ELSE /\ ~converged
              /\ UNCHANGED <<arg, loc>>
              /\ IF itr + 1 >= plan.iterations
                 THEN pc' = "return" /\ itr' = itr
                 ELSE pc' = "sigY" /\ itr' = itr + 1
    /\ UNCHANGED <<arith, linalgIsValueError, fn, exc, script, plan, W, fresh, bind,
                   lastPerp, traceVars, last, stderr, stdout, entry, results>>

\* lines 250-251: the returned VbSideTopicQueryState (expLmda, nu, lxi, s, docLen)
UyTrain_Return ==
    /\ fn = "uy.train" /\ pc = "return"
    /\ loc' = [loc EXCEPT !.handed = @ \cup {Handover("caller", "return", "expLmda",
                                                       arg.expLmda)}]
    /\ Finish([fn |-> fn, outcome |-> "returned", plan |-> plan,
               executed |-> IF plan.iterations = 0 THEN 0 ELSE itr + 1,
               query |-> [expLmda |-> arg.expLmda],
               before |-> entry, after |-> arg])
    /\ UNCHANGED <<arith, linalgIsValueError, fn, exc, script, plan, W, fresh, arg, bind, itr,
                   lastPerp, traceVars, last, stderr, stdout, entry>>

\* ------------------------------------------------------------------------
\* Specification of old/sidetopic_uy.train: one call
\* ------------------------------------------------------------------------
UyScripts ==
    {<<[fn |-> "uy.train", plan |-> PlanOf(n, lc, FALSE, debug), from |-> "fresh",
        data |-> Words(w), seed |-> seed]>> :
        n \in 0 .. MaxShortIters, lc \in {0, 1}, debug \in BOOLEAN, w \in Seeds, seed \in Seeds}

InitUy ==
    /\ arith = "ring" /\ linalgIsValueError = TRUE
    /\ \E sc \in UyScripts :
          /\ script = sc /\ W = sc[1].data
          /\ fresh = [d \in Doc |-> [k \in Topic |-> Rand(sc[1].seed, d, k)]]
    /\ arg = <<>> /\ entry = <<>>
    /\ loc = <<>> /\ bind = <<>>
    /\ fn = "none" /\ pc = "idle" /\ exc = "none"
    /\ plan = PlanOf(0, 0, FALSE, FALSE)
    /\ itr = 0 /\ lastPerp = HugePerp
    /\ boundIters = <<>> /\ boundValues = <<>> /\ likelyValues = <<>> /\ bvIdx = 0
    /\ last = 0 /\ stderr = {} /\ stdout = {} /\ results = <<>>

NextUy == UyCall \/ UyTrain_Init \/ UyTrain_Update \/ UyTrain_Log \/ UyTrain_Return

SpecUy == InitUy /\ [][NextUy]_vars

\* C30: in old/sidetopic_uy.train the buffer shared by lmda and expLmda is in
\* exponentiated form wherever it is handed over as expLmda: to the debug
\* hook, in the query state given to varBound and in the query state that
\* train returns, the buffer equals exp(lmda).
C30_BufferExponentiated ==
    (fn = "uy.train" /\ pc # "init") =>
        \A h \in loc.handed : h.name = "expLmda" => h.exps = 1
====
